---- MODULE Spec2Model ----
(***************************************************************************)
(* db-mcp-server: the connection-pool manager (src/src/database.ts), the   *)
(* two query history stores it records into (src/src/query-history.ts),    *)
(* the two session stores (src/src/session.ts) and the /sse and /messages  *)
(* handlers with the cleanup timer (src/index.ts, api/sse.ts,              *)
(* api/messages.ts).                                                       *)
(*                                                                         *)
(* Node runs one handler at a time until it awaits: every action below is  *)
(* the code between two awaits of one handler. An await on the database    *)
(* driver, on Redis or on the protocol server is a point where other       *)
(* handlers run; the outcome of such a call is the environment's choice.   *)
(*                                                                         *)
(* Spec      : the pool manager, MaxCalls concurrent PostgresClient.query  *)
(*             calls, memory history store.                                *)
(* SharedSpec: the same with the Redis history store.                      *)
(* HistSpec  : the QueryHistoryStore methods called directly.              *)
(* CapSpec   : the memory history store filled past its ceiling.           *)
(* StoreSpec : the SessionStore methods called directly.                   *)
(* SessSpec  : the session layer, one process, memory or Redis backend.    *)
(* PeerSpec  : the session layer of a process that did not open the        *)
(*             channel, Redis backend.                                     *)
(***************************************************************************)
EXTENDS Integers, Sequences, FiniteSets, TLC

VARIABLES
    now,               \* Date.now(), in ms
    clients,           \* PostgresClient.clients: key -> pool handle
    stats,             \* PostgresClient.stats: key -> DbStats
    history,           \* MemoryQueryHistoryStore.history
    rq,                \* the Redis keys of RedisQueryHistoryStore
    nextPool,          \* number of pg.Pool objects constructed so far
    nextEntryId,       \* number of history ids (uuidv4) drawn so far
    calls,             \* the PostgresClient.query invocations
    shutdown,          \* the PostgresClient.close invocation
    db,                \* the rows of table t in the database behind the pools
    backend,           \* which SessionStore createSessionStore() returned
    activeTransports,  \* server.ts activeTransports: session id -> transport
    sessions,          \* MemorySessionStore.sessions
    redis,             \* the mcp:session:* keys of the Redis server
    sse,               \* the /sse handler invocations, one per session id
    msgs,              \* the /messages handler invocations
    sweep,             \* the setInterval cleanup callback
    evicted,           \* history variable: ids a sweep removed from the store
    storeCall,         \* the last direct call of a SessionStore method
    answered,          \* the answer to the last /messages request
    histCall,          \* the last direct call of a QueryHistoryStore method
    idCall,            \* the last evaluation of getConnectionId on two descriptors
    authDisabled,      \* process.env.AUTH_DISABLED === 'true'
    conn,              \* the Redis clients of the two stores and the calls that
                       \* go through their connect()
    bound              \* history variable: the handle the last successful
                       \* saveSession of an id was given

dbVars == <<clients, stats, history, rq, nextPool, nextEntryId, calls, shutdown, db>>
sessVars ==
    <<backend, activeTransports, sessions, redis, sse, msgs, sweep, evicted, storeCall,
      answered, histCall, idCall, authDisabled, conn, bound>>
vars == <<now, dbVars, sessVars>>

(***************************************************************************)
(* Bounds                                                                  *)
(***************************************************************************)
MaxCalls == 2
MaxDbTime == 1
MaxTicks == 5
MaxStoreCalls == 4
MaxMsgs == 1
MaxHistCalls == 3
MaxHistTime == 1
MaxLimit == 3
MaxRecords == 1002
MaxOps == 3
MaxPageRecords == 52

Calls == 1..MaxCalls

(***************************************************************************)
(* Connection descriptors and their fingerprint                            *)
(***************************************************************************)
Configs ==
    [host : {"h"}, port : {5432}, database : {"db"},
     user : {"alice", "bob"}, password : {"pw1", "pw2"}, ssl : BOOLEAN]

\* a fingerprint that takes the password in
getConnectionIdWithPassword(config) ==
    config.user \o ":" \o config.password \o "@" \o config.host \o ":"
        \o ToString(config.port) \o "/" \o config.database

getConnectionId(config) ==
    config.user \o "@" \o config.host \o ":" \o ToString(config.port)
        \o "/" \o config.database

\* a key that tells descriptors with different secrets apart
getConnectionKeyWithSecrets(config) ==
    getConnectionId(config) \o "?" \o config.password
        \o (IF config.ssl THEN "&ssl" ELSE "")

getConnectionKey(config) == getConnectionId(config)

Keys == {getConnectionKey(config) : config \in Configs}

\* What the callers ask for: a descriptor and a statement
Requests ==
    {<<[host |-> "h", port |-> 5432, database |-> "db", user |-> "alice",
        password |-> "pw1", ssl |-> FALSE], "SELECT 1">>,
     <<[host |-> "h", port |-> 5432, database |-> "db", user |-> "alice",
        password |-> "pw2", ssl |-> TRUE], "SELECT 2">>,
     <<[host |-> "h", port |-> 5432, database |-> "db", user |-> "bob",
        password |-> "pw1", ssl |-> FALSE], "SELECT 1">>}
\* The requests differ only in the names they carry: the first call is
\* alice's SELECT 1, the later ones are any of the three.
RequestsOf(c) ==
    IF c = 1 THEN {r \in Requests : r[1].user = "alice" /\ r[1].password = "pw1"}
    ELSE Requests
DriverErrors == {"syntax error"}
ConnectErrors == {"ECONNREFUSED"}
RowCounts == {0}

(***************************************************************************)
(* Exact arithmetic for avgExecutionTimeMs (a JS number): a fraction       *)
(* <<numerator, denominator>> in lowest terms.                             *)
(***************************************************************************)
RECURSIVE GCD(_, _)
GCD(a, b) == IF b = 0 THEN a ELSE GCD(b, a % b)

Frac(n, d) == IF n = 0 THEN <<0, 1>> ELSE <<n \div GCD(n, d), d \div GCD(n, d)>>
FracTimesInt(f, k) == Frac(f[1] * k, f[2])
FracPlusInt(f, k) == Frac(f[1] + k * f[2], f[2])
FracDivInt(f, k) == Frac(f[1], f[2] * k)

(***************************************************************************)
(* PostgresClient                                                          *)
(***************************************************************************)
NoPool == 0
NoStats == [absent |-> TRUE]
NoSlowest == [absent |-> TRUE]
NoValue == [absent |-> TRUE]
\* an optional field that is present
Some(v) == [value |-> v]
NoTime == -1

\* an initial record that counts the attempt
InitialStatsCounted(key) ==
    [connectionId |-> key, totalQueries |-> 1, avgExecutionTimeMs |-> <<0, 1>>,
     slowestQuery |-> NoSlowest, lastQueryTimestamp |-> NoTime]

InitialStats(key) ==
    [connectionId |-> key, totalQueries |-> 0, avgExecutionTimeMs |-> <<0, 1>>,
     slowestQuery |-> NoSlowest, lastQueryTimestamp |-> NoTime]

\* database.ts 101: stats.avgExecutionTimeMs after one more query
RunningAverageOfTwo(avg, oldCount, executionTimeMs) ==
    FracDivInt(FracPlusInt(avg, executionTimeMs), 2)

RunningAverage(avg, oldCount, executionTimeMs) ==
    FracDivInt(FracPlusInt(FracTimesInt(avg, oldCount), executionTimeMs), oldCount + 1)

\* a test that also replaces the record on an equal duration
ReplacesSlowestOnTie(slowest, executionTimeMs) ==
    slowest = NoSlowest \/ executionTimeMs >= slowest.executionTimeMs

\* database.ts 105: does this query replace the slowest-query record
ReplacesSlowest(slowest, executionTimeMs) ==
    slowest = NoSlowest \/ executionTimeMs > slowest.executionTimeMs

\* a finally block that leaves totalQueries as it was
UpdatedStatsSameCount(old, key, query, executionTimeMs, time) ==
    LET s == IF old = NoStats THEN InitialStats(key) ELSE old
    IN  [s EXCEPT !.lastQueryTimestamp = time]

\* database.ts 93-112: the statistics record the finally block stores
UpdatedStats(old, key, query, executionTimeMs, time) ==
    LET s == IF old = NoStats THEN InitialStats(key) ELSE old
    IN  [connectionId |-> s.connectionId,
         totalQueries |-> s.totalQueries + 1,
         avgExecutionTimeMs |->
             RunningAverage(s.avgExecutionTimeMs, s.totalQueries, executionTimeMs),
         slowestQuery |->
             IF ReplacesSlowest(s.slowestQuery, executionTimeMs)
             THEN [query |-> query, executionTimeMs |-> executionTimeMs]
             ELSE s.slowestQuery,
         lastQueryTimestamp |-> time]

\* database.ts 115: if (result || error)
RecordsOnlySuccess(result, error) == result # NoValue

\* the session whose channel the tool calls arrive over
Requester == 1

\* a finally block that records only while the requesting channel is up
RecordsOnlyWhileOpen(result, error) ==
    (result # NoValue \/ error # NoValue) /\ sse[Requester].client = "up"

ShouldRecord(result, error) == result # NoValue \/ error # NoValue

\* database.ts 116-123: the entry handed to recordQuery
HistoryInput(key, query, result, error, executionTimeMs) ==
    [dbConnectionId |-> key, query |-> query, params |-> <<>>,
     rowCount |-> IF result # NoValue THEN Some(result.rowCount) ELSE NoValue,
     executionTimeMs |-> executionTimeMs,
     error |-> IF error # NoValue THEN Some(error.message) ELSE NoValue]

HistoryCap == 1000

\* query-history.ts 35-39, 96-100: { ...entry, id: uuidv4(), timestamp: new Date() }
NewEntry(entry, id, time) ==
    [id |-> id, timestamp |-> time,
     dbConnectionId |-> entry.dbConnectionId,
     query |-> entry.query, params |-> entry.params,
     rowCount |-> entry.rowCount,
     executionTimeMs |-> entry.executionTimeMs,
     error |-> entry.error]

\* a recordQuery that cuts the array down with slice(0, 1000)
recordQueryKeepsOldest(h, entry, id, time) ==
    LET pushed == Append(h, NewEntry(entry, id, time))
    IN  IF Len(pushed) > HistoryCap THEN SubSeq(pushed, 1, HistoryCap) ELSE pushed

\* query-history.ts 34-49: MemoryQueryHistoryStore.recordQuery
recordQuery(h, entry, id, time) ==
    LET newEntry == NewEntry(entry, id, time)
        pushed == Append(h, newEntry)
    IN  IF Len(pushed) > HistoryCap
        THEN SubSeq(pushed, Len(pushed) - HistoryCap + 1, Len(pushed))
        ELSE pushed

\* RedisQueryHistoryStore: the entry keys (prefix + id -> JSON of the entry)
\* and the sorted sets (prefix + dbConnectionId + ":list", members scored by
\* timestamp)
RqEmpty == [entries |-> {}, lists |-> [key \in Keys |-> {}]]

\* JSON.stringify(newEntry), 105: the Date becomes its ISO string (ms kept)
Stringify(entry) == [entry EXCEPT !.timestamp = [iso |-> @]]

\* JSON.parse(data) and entry.timestamp = new Date(entry.timestamp), 141-143
Parse(data) == [data EXCEPT !.timestamp = @.iso]

\* query-history.ts 103-106: SET prefix+id
RqSet(q, newEntry) ==
    [q EXCEPT !.entries = {e \in @ : e.id # newEntry.id} \cup {Stringify(newEntry)}]

\* client.get(prefix + id), parsed: 139-144, 161-167
RqGet(q, id) ==
    IF \E data \in q.entries : data.id = id
    THEN Parse(CHOOSE data \in q.entries : data.id = id)
    ELSE NoValue

\* query-history.ts 109-112: ZADD prefix+dbConnectionId:list score id
RqZAdd(q, newEntry) ==
    [q EXCEPT !.lists[newEntry.dbConnectionId] =
        {x \in @ : x.value # newEntry.id}
            \cup {[score |-> newEntry.timestamp, value |-> newEntry.id]}]

\* what a failing Redis command throws
HistoryErrors == {"redis write failed"}

IdleCall ==
    [pc |-> "idle", config |-> NoValue, query |-> "", pool |-> NoPool,
     created |-> FALSE, checked |-> FALSE, startTime |-> NoTime,
     executionTimeMs |-> NoTime, result |-> NoValue, error |-> NoValue,
     outcome |-> NoValue, after |-> {}, entry |-> NoValue]

\* after: history field, the calls that had returned when this one began
KeyOf(c) == getConnectionKey(calls[c].config)
Begun(c) == calls[c].pc # "idle"
\* the call's statement settled (the finally block ran)
Settled(c) == calls[c].executionTimeMs # NoTime
\* the call ended in getConnection's catch
ConnectFailed(c) == calls[c].pc = "done" /\ ~Settled(c)

\* The pool getConnection hands out when the key is cached (database.ts 43, 70)
\* and the one it constructs when it is not (44-58).
CachedPoolIgnored(key) == FALSE

HasCachedPool(key) == clients[key] # NoPool

\* database.ts 74-76 with getConnection 40-58 and 70: up to the first await
QueryBegin(c, config, query) ==
    /\ calls[c].pc = "idle"
    /\ \A b \in Calls : b < c => calls[b].pc # "idle"
    /\ LET key == getConnectionKey(config)
           base == [calls[c] EXCEPT !.config = config, !.query = query,
                        !.after = {b \in Calls : calls[b].pc = "done"}]
       IN  IF HasCachedPool(key)
           THEN /\ calls' = [calls EXCEPT ![c] =
                        [base EXCEPT !.pc = "acquired", !.pool = clients[key]]]
                /\ UNCHANGED <<stats, nextPool>>
           ELSE /\ nextPool' = nextPool + 1
                /\ stats' = [stats EXCEPT ![key] = InitialStats(key)]
                /\ calls' = [calls EXCEPT ![c] =
                        [base EXCEPT !.pc = "connecting", !.pool = nextPool + 1,
                                     !.created = TRUE]]
    /\ UNCHANGED <<now, clients, history, nextEntryId, rq, shutdown, db, sessVars>>

\* database.ts 62-64: the health check succeeded
CacheAfterFailure(key, pool, ok) == [clients EXCEPT ![key] = pool]

CacheAfterCheck(key, pool, ok) ==
    IF ok THEN [clients EXCEPT ![key] = pool] ELSE clients

ConnectOk(c) ==
    /\ calls[c].pc = "connecting"
    /\ clients' = CacheAfterCheck(getConnectionKey(calls[c].config), calls[c].pool, TRUE)
    /\ calls' = [calls EXCEPT ![c].pc = "acquired", ![c].checked = TRUE,
                              ![c].pool = clients'[getConnectionKey(calls[c].config)]]
    /\ UNCHANGED <<now, stats, history, nextPool, nextEntryId, rq, shutdown, db, sessVars>>

\* database.ts 65-67: the health check failed
ConnectFail(c, cause) ==
    /\ calls[c].pc = "connecting"
    /\ clients' = CacheAfterCheck(getConnectionKey(calls[c].config), calls[c].pool, FALSE)
    /\ calls' = [calls EXCEPT ![c].pc = "done", ![c].checked = TRUE,
                    ![c].outcome = [threw |-> TRUE,
                        message |-> "Failed to connect to database: " \o cause]]
    /\ UNCHANGED <<now, stats, history, nextPool, nextEntryId, rq, shutdown, db, sessVars>>

\* database.ts 79-84: startTime is taken and the statement is sent
StatementStart(c) ==
    /\ calls[c].pc = "acquired"
    /\ calls' = [calls EXCEPT ![c].pc = "running", ![c].startTime = now]
    /\ UNCHANGED <<now, clients, stats, history, nextPool, nextEntryId, rq, shutdown, db, sessVars>>

\* The database: one table t. A statement sent on its own is run as it
\* stands; sent inside BEGIN ... READ ONLY it cannot write.
InitialRows == {0}

Inserting == "INSERT INTO t VALUES (1)"
Deleting == "DELETE FROM t"

Execute(rows, text) ==
    IF text = Inserting THEN rows \cup {1}
    ELSE IF text = Deleting THEN {}
    ELSE rows

\* database.ts 85-124: the statement settled; the finally block up to the await
\* of recordQuery. The memory store pushes before it yields; the Redis store
\* has built the entry (96-100) and waits for its SET.
Settle(c, result, error) ==
    /\ calls[c].pc = "running"
    /\ db' = IF error = NoValue THEN Execute(db, calls[c].query) ELSE db
    /\ LET key == getConnectionKey(calls[c].config)
           executionTimeMs == now - calls[c].startTime
           input == HistoryInput(key, calls[c].query, result, error, executionTimeMs)
           settled == [calls[c] EXCEPT !.pc = "recording", !.result = result,
                           !.error = error, !.executionTimeMs = executionTimeMs]
       IN  /\ stats' = [stats EXCEPT ![key] =
                   UpdatedStats(stats[key], key, calls[c].query, executionTimeMs, now)]
           /\ IF ~ShouldRecord(result, error)
              THEN /\ calls' = [calls EXCEPT ![c] = settled]
                   /\ UNCHANGED <<history, nextEntryId>>
              ELSE IF backend = "memory"
              THEN /\ history' = recordQuery(history, input, nextEntryId + 1, now)
                   /\ nextEntryId' = nextEntryId + 1
                   /\ calls' = [calls EXCEPT ![c] = settled]
              ELSE /\ nextEntryId' = nextEntryId + 1
                   /\ calls' = [calls EXCEPT ![c] =
                          [settled EXCEPT !.entry = NewEntry(input, nextEntryId + 1, now)]]
                   /\ UNCHANGED history
    /\ UNCHANGED <<now, clients, nextPool, rq, shutdown, sessVars>>

StatementOk(c, rowCount) == Settle(c, [rowCount |-> rowCount], NoValue)

StatementErr(c, message) == Settle(c, NoValue, [message |-> message])

\* database.ts 85, 88: what the caller gets once the finally block is through
Outcome(result, error) ==
    IF error # NoValue THEN [threw |-> TRUE, message |-> error.message]
    ELSE [threw |-> FALSE, rowCount |-> result.rowCount]

QueryEnd(c) ==
    /\ calls[c].pc = "recording"
    /\ calls[c].entry = NoValue
    /\ calls' = [calls EXCEPT ![c].pc = "done",
                              ![c].outcome = Outcome(calls[c].result, calls[c].error)]
    /\ UNCHANGED <<now, clients, stats, history, nextPool, nextEntryId, rq, shutdown, db, sessVars>>

\* database.ts 116: the rejection of recordQuery leaves the finally block
\* and takes the place of the return value or of the driver error
RecordFailure(cause) == [threw |-> TRUE, message |-> cause]

\* RedisQueryHistoryStore.recordQuery 103-106: the SET answered; on failure
\* the catch rethrows (115-118)
RecordSet(c, ok, cause) ==
    /\ calls[c].pc = "recording"
    /\ calls[c].entry # NoValue
    /\ IF ok
       THEN /\ rq' = RqSet(rq, calls[c].entry)
            /\ calls' = [calls EXCEPT ![c].pc = "indexing"]
       ELSE /\ calls' = [calls EXCEPT ![c].pc = "done",
                                      ![c].outcome = RecordFailure(cause)]
            /\ UNCHANGED rq
    /\ UNCHANGED <<now, clients, stats, history, nextPool, nextEntryId, shutdown, db, sessVars>>

\* RedisQueryHistoryStore.recordQuery 109-118: the ZADD answered
RecordAdd(c, ok, cause) ==
    /\ calls[c].pc = "indexing"
    /\ IF ok
       THEN /\ rq' = RqZAdd(rq, calls[c].entry)
            /\ calls' = [calls EXCEPT ![c].pc = "done",
                             ![c].outcome = Outcome(calls[c].result, calls[c].error)]
       ELSE /\ calls' = [calls EXCEPT ![c].pc = "done",
                                      ![c].outcome = RecordFailure(cause)]
            /\ UNCHANGED rq
    /\ UNCHANGED <<now, clients, stats, history, nextPool, nextEntryId, shutdown, db, sessVars>>

\* pools: the pools close() called end() on; ended: those whose end() resolved
NoShutdown == [pc |-> "idle", pools |-> {}, ended |-> {}]

\* the pools in the map
CachedPools(cl) == {cl[key] : key \in Keys} \ {NoPool}

\* database.ts 141-142: close() takes the pools of the map and calls end() on
\* each of them
CloseBegin ==
    /\ shutdown.pc = "idle"
    /\ shutdown' = [pc |-> "ending", pools |-> CachedPools(clients), ended |-> {}]
    /\ UNCHANGED <<now, clients, stats, history, nextPool, nextEntryId, rq, calls, db, sessVars>>

\* database.ts 142-144: the two clear() calls come after the await and run
\* only if Promise.all resolved
CloseClears(failed) == failed = {}

\* database.ts 142-144: Promise.all settled; failed: the pools whose end()
\* rejected
CloseSettle(failed) ==
    /\ shutdown.pc = "ending"
    /\ failed \subseteq shutdown.pools
    /\ IF CloseClears(failed)
       THEN /\ clients' = [key \in Keys |-> NoPool]
            /\ stats' = [key \in Keys |-> NoStats]
       ELSE UNCHANGED <<clients, stats>>
    /\ shutdown' = [shutdown EXCEPT !.pc = IF failed = {} THEN "done" ELSE "threw",
                                    !.ended = shutdown.pools \ failed]
    /\ UNCHANGED <<now, history, nextPool, nextEntryId, rq, calls, db, sessVars>>

\* database.ts 129-132: getStats, null when the key has no record
getStats(config) == stats[getConnectionKey(config)]

\* database.ts 135-137: getAllStats
getAllStats == {stats[key] : key \in Keys} \ {NoStats}

\* Date.now() advances while a statement is in flight
DbTick ==
    /\ now < MaxDbTime
    /\ \E c \in Calls : calls[c].pc = "running"
    /\ now' = now + 1
    /\ UNCHANGED <<dbVars, sessVars>>

DbInit ==
    /\ clients = [key \in Keys |-> NoPool]
    /\ stats = [key \in Keys |-> NoStats]
    /\ history = <<>>
    /\ rq = RqEmpty
    /\ nextPool = 0
    /\ nextEntryId = 0
    /\ calls = [c \in Calls |-> IdleCall]
    /\ shutdown = NoShutdown
    /\ db = InitialRows

(***************************************************************************)
(* Session stores (src/src/session.ts)                                     *)
(***************************************************************************)
\* ids /sse hands out (transport.sessionId, a uuid) and one it never does.
\* SessSpec follows one channel: channels share nothing but the sweep, which
\* StoreSpec runs over two ids.
BogusId == 0
SessionIds == {1}
\* ids the direct calls of StoreSpec use
StoreIds == {1, 2}
\* the id of a channel that another server process opens against the same
\* Redis (PeerSpec)
PeerIds == {2}
AllIds == {BogusId} \cup SessionIds \cup StoreIds \cup PeerIds

\* index.ts: setInterval period and the age it passes to cleanupSessions
CleanupIntervalMs == 900000
CleanupMaxAgeMs == 3600000
\* session.ts 104, 129: { EX: 3600 }, in ms
RedisTtlMs == 3600000

\* new SSEServerTransport(...): the handle of the channel with this id
Transport(id) == [sessionId |-> id]

\* MemorySessionStore.saveSession
MemSave(ss, id, transport, time) ==
    [ss EXCEPT ![id] =
        [transport |-> transport, created |-> time, lastAccessed |-> time]]

\* MemorySessionStore.getSession: what it returns, and the map it leaves
MemGetReturn(ss, id) == IF ss[id] = NoValue THEN NoValue ELSE ss[id].transport

MemGetNoRefresh(ss, id, time) == ss

MemGetOrCreate(ss, id, time) ==
    IF ss[id] = NoValue THEN MemSave(ss, id, Transport(id), time)
    ELSE [ss EXCEPT ![id].lastAccessed = time]

MemGet(ss, id, time) ==
    IF ss[id] = NoValue THEN ss ELSE [ss EXCEPT ![id].lastAccessed = time]

\* MemorySessionStore.deleteSession
MemDeleteAll(ss, id) == [other \in DOMAIN ss |-> NoValue]

MemDelete(ss, id) == [ss EXCEPT ![id] = NoValue]

\* MemorySessionStore.cleanupSessions, line 58: if (age > maxAgeMs)
TooOldInclusive(age, maxAgeMs) == age >= maxAgeMs

TooOld(age, maxAgeMs) == age > maxAgeMs

\* a sweep that removes nothing
MemCleanupKeepsAll(ss, maxAgeMs, time) == ss

MemCleanup(ss, maxAgeMs, time) ==
    [id \in DOMAIN ss |->
        IF ss[id] # NoValue /\ TooOld(time - ss[id].lastAccessed, maxAgeMs)
        THEN NoValue ELSE ss[id]]

\* The Redis server: SET key value EX, GET, DEL, KEYS prefix*
RedisSet(r, id, value, time) ==
    [r EXCEPT ![id] = [value |-> value, expiresAt |-> time + RedisTtlMs]]

RedisGet(r, id, time) ==
    IF r[id] # NoValue /\ time < r[id].expiresAt THEN r[id].value ELSE NoValue

RedisDel(r, id) == [r EXCEPT ![id] = NoValue]

RedisKeys(r, time) == {id \in DOMAIN r : RedisGet(r, id, time) # NoValue}

\* keys whose EX has run out are gone
RedisExpire(r, time) ==
    [id \in DOMAIN r |-> IF RedisGet(r, id, time) = NoValue THEN NoValue ELSE r[id]]

\* RedisSessionStore.saveSession 99-103: the value stored
NewSessionData(id, time) == [id |-> id, created |-> time, lastAccessed |-> time]

\* RedisSessionStore.getSession 123-124: the value written back
Refreshed(data, time) == [data EXCEPT !.lastAccessed = time]

\* RedisSessionStore.getSession 133: activeTransports[sessionId] || null
LocalHandle(at, id) == at[id]

\* RedisSessionStore.deleteSession 146-148
DropLocal(at, id) == [at EXCEPT ![id] = NoValue]

\* RedisSessionStore.cleanupSessions 164-170
PruneLocal(at, validSessionIds) ==
    [id \in DOMAIN at |-> IF id \in validSessionIds THEN at[id] ELSE NoValue]

\* a sweep that treats a failed KEYS as an empty list of keys
RedisCleanupFailedAsEmpty(at, r, time, redisOk) ==
    PruneLocal(at, IF redisOk THEN RedisKeys(r, time) ELSE {})

\* RedisSessionStore.cleanupSessions 155-174: activeTransports after the call;
\* when connect or KEYS throws, the catch logs and the loop never runs
RedisCleanup(at, r, time, redisOk) ==
    IF redisOk THEN PruneLocal(at, RedisKeys(r, time)) ELSE at

(***************************************************************************)
(* StoreSpec: the SessionStore methods called directly, one after the      *)
(* other, against either store; a Redis command may fail.                  *)
(***************************************************************************)
NoCall == [n |-> 0, op |-> "none"]

NoIdCall == [op |-> "none"]

\* log, cleared: history fields, the entries the record calls returned so far
\* and the fingerprints clearHistory was called with
NoHistCall == [n |-> 0, op |-> "none", log |-> <<>>, cleared |-> {}]

\* existed, again: history fields of a call's record, whether the store held
\* the id when the call began and whether the call repeats the previous one
Stored(id) ==
    IF backend = "memory" THEN sessions[id] # NoValue
    ELSE RedisGet(redis, id, now) # NoValue

StoreMaxAges == {CleanupIntervalMs, CleanupMaxAgeMs}

StoreFrame ==
    UNCHANGED <<dbVars, backend, sse, msgs, sweep, evicted, answered, histCall, idCall,
                authDisabled, conn>>
StoreFrameB == StoreFrame /\ UNCHANGED bound

\* saveSession(id, transport); redisOk: the SET went through
StoreSave(id, transport, redisOk) ==
    /\ storeCall.n < MaxStoreCalls
    /\ IF backend = "memory"
       THEN /\ redisOk
            /\ sessions' = MemSave(sessions, id, transport, now)
            /\ UNCHANGED <<redis, activeTransports>>
       ELSE /\ UNCHANGED sessions
            /\ IF redisOk
               THEN /\ redis' = RedisSet(redis, id, NewSessionData(id, now), now)
                    /\ activeTransports' = [activeTransports EXCEPT ![id] = transport]
               ELSE UNCHANGED <<redis, activeTransports>>
    /\ storeCall' = [n |-> storeCall.n + 1, op |-> "save", id |-> id,
                     transport |-> transport, threw |-> ~redisOk,
                     existed |-> Stored(id)]
    /\ bound' = IF redisOk THEN [bound EXCEPT ![id] = transport] ELSE bound
    /\ UNCHANGED now /\ StoreFrame

\* getSession(id); in Redis the GET or the SET may fail
StoreGet(id, getOk, setOk) ==
    /\ storeCall.n < MaxStoreCalls
    /\ IF backend = "memory"
       THEN /\ getOk /\ setOk
            /\ sessions' = MemGet(sessions, id, now)
            /\ storeCall' = [n |-> storeCall.n + 1, op |-> "get", id |-> id,
                             ret |-> MemGetReturn(sessions, id),
                             getOk |-> TRUE, setOk |-> TRUE]
            /\ UNCHANGED <<redis, activeTransports>>
       ELSE LET data == IF getOk THEN RedisGet(redis, id, now) ELSE NoValue
            IN  /\ getOk \/ setOk
                /\ redis' = IF data # NoValue /\ setOk
                            THEN RedisSet(redis, id, Refreshed(data, now), now)
                            ELSE redis
                /\ storeCall' = [n |-> storeCall.n + 1, op |-> "get", id |-> id,
                                 ret |-> IF data # NoValue /\ setOk
                                         THEN LocalHandle(activeTransports, id)
                                         ELSE NoValue,
                                 getOk |-> getOk, setOk |-> setOk]
                /\ UNCHANGED <<sessions, activeTransports>>
    /\ UNCHANGED now /\ StoreFrameB

\* deleteSession(id)
StoreDelete(id, redisOk) ==
    /\ storeCall.n < MaxStoreCalls
    /\ IF backend = "memory"
       THEN /\ redisOk
            /\ sessions' = MemDelete(sessions, id)
            /\ UNCHANGED <<redis, activeTransports>>
       ELSE /\ UNCHANGED sessions
            /\ IF redisOk
               THEN /\ redis' = RedisDel(redis, id)
                    /\ activeTransports' = DropLocal(activeTransports, id)
               ELSE UNCHANGED <<redis, activeTransports>>
    /\ storeCall' = [n |-> storeCall.n + 1, op |-> "delete", id |-> id,
                     redisOk |-> redisOk, threw |-> FALSE,
                     existed |-> Stored(id) \/ activeTransports[id] # NoValue,
                     again |-> storeCall.op = "delete" /\ storeCall.id = id]
    /\ UNCHANGED now /\ StoreFrameB

\* cleanupSessions(maxAgeMs)
StoreCleanup(maxAgeMs, redisOk) ==
    /\ storeCall.n < MaxStoreCalls
    /\ IF backend = "memory"
       THEN /\ redisOk
            /\ sessions' = MemCleanup(sessions, maxAgeMs, now)
            /\ UNCHANGED <<redis, activeTransports>>
       ELSE /\ UNCHANGED <<sessions, redis>>
            /\ activeTransports' = RedisCleanup(activeTransports, redis, now, redisOk)
    /\ storeCall' = [n |-> storeCall.n + 1, op |-> "cleanup", maxAgeMs |-> maxAgeMs,
                     redisOk |-> redisOk, threw |-> FALSE,
                     removed |-> {id \in AllIds : sessions[id] # NoValue
                                                   /\ sessions'[id] = NoValue}]
    /\ UNCHANGED now /\ StoreFrameB

\* index.ts 124: the owner of activeTransports removes an entry itself
StoreLocalDelete(id) ==
    /\ backend = "redis"
    /\ activeTransports[id] # NoValue
    /\ activeTransports' = DropLocal(activeTransports, id)
    /\ UNCHANGED <<now, sessions, redis, storeCall>> /\ StoreFrameB

StoreTick ==
    /\ now < MaxTicks * CleanupIntervalMs
    /\ now' = now + CleanupIntervalMs
    /\ redis' = RedisExpire(redis, now')
    /\ UNCHANGED <<sessions, activeTransports, storeCall>> /\ StoreFrameB

(***************************************************************************)
(* SessSpec: the /sse and /messages handlers and the cleanup timer of one  *)
(* server process (src/index.ts; api/sse.ts and api/messages.ts are the    *)
(* same handlers behind the bearer-token check).                           *)
(***************************************************************************)
Msgs == 1..MaxMsgs

\* req.query.sessionId of a request that carries none
NoId == -1

\* a /messages invocation that is waiting for Redis; afterEvict, afterClose,
\* afterDelete: history fields, whether the message was posted after a sweep
\* evicted its session / after its client disconnected / after the /sse
\* handler or its close listener had deleted the session
IdleMsg ==
    [pc |-> "idle", sessionId |-> NoId, data |-> NoValue, afterEvict |-> FALSE,
     afterClose |-> FALSE, afterDelete |-> FALSE]

NoAnswer ==
    [sessionId |-> NoId, status |-> 0, handed |-> NoValue, at |-> NoTime,
     afterEvict |-> FALSE, afterClose |-> FALSE, afterDelete |-> FALSE]

AppFrame == UNCHANGED <<dbVars, backend, storeCall, histCall, idCall, authDisabled, conn>>
SseFrame == AppFrame /\ UNCHANGED answered

\* GET /sse, lines 106-116: the transport is created and put in
\* activeTransports, saveSession is called
SseOpen(id) ==
    /\ sse[id].pc = "idle"
    /\ \A b \in SessionIds : b < id => sse[b].pc # "idle"
    /\ activeTransports' = [activeTransports EXCEPT ![id] = Transport(id)]
    /\ IF backend = "memory"
       THEN /\ sessions' = MemSave(sessions, id, Transport(id), now)
            /\ bound' = [bound EXCEPT ![id] = Transport(id)]
            /\ sse' = [sse EXCEPT ![id].pc = "connecting"]
       ELSE /\ sse' = [sse EXCEPT ![id].pc = "saving"]
            /\ UNCHANGED <<sessions, bound>>
    /\ UNCHANGED <<now, redis, msgs, sweep, evicted>> /\ SseFrame

\* RedisSessionStore.saveSession: the SET went through, line 108; then
\* mcpServer.connect is called
SseSaveOk(id) ==
    /\ sse[id].pc = "saving"
    /\ redis' = RedisSet(redis, id, NewSessionData(id, now), now)
    /\ activeTransports' = [activeTransports EXCEPT ![id] = Transport(id)]
    /\ bound' = [bound EXCEPT ![id] = Transport(id)]
    /\ sse' = [sse EXCEPT ![id].pc = "connecting"]
    /\ UNCHANGED <<now, sessions, msgs, sweep, evicted>> /\ SseFrame

\* RedisSessionStore.saveSession rethrows (110-111); the handler has no
\* try around it: its promise rejects
SseSaveFail(id) ==
    /\ sse[id].pc = "saving"
    /\ sse' = [sse EXCEPT ![id].pc = "rejected"]
    /\ UNCHANGED <<now, activeTransports, sessions, redis, msgs, sweep, evicted, bound>>
    /\ SseFrame

\* index.ts 120-126: mcpServer.connect resolved, the close listener is attached
SseConnectOk(id) ==
    /\ sse[id].pc = "connecting"
    /\ sse' = [sse EXCEPT ![id].pc = "open"]
    /\ UNCHANGED <<now, activeTransports, sessions, redis, msgs, sweep, evicted, bound>>
    /\ SseFrame

\* index.ts 127-130: mcpServer.connect threw
SseConnectFail(id) ==
    /\ sse[id].pc = "connecting"
    /\ IF backend = "memory"
       THEN /\ sessions' = MemDelete(sessions, id)
            /\ sse' = [sse EXCEPT ![id].pc = "failed"]
       ELSE /\ sse' = [sse EXCEPT ![id].pc = "failing"]
            /\ UNCHANGED sessions
    /\ UNCHANGED <<now, activeTransports, redis, msgs, sweep, evicted, bound>>
    /\ SseFrame

\* RedisSessionStore.deleteSession 140-152, awaited by the catch block (pc
\* failing) or by the close listener (pc closing)
SseDelete(id, redisOk) ==
    /\ sse[id].pc \in {"failing", "closing"}
    /\ IF redisOk
       THEN /\ redis' = RedisDel(redis, id)
            /\ activeTransports' = DropLocal(activeTransports, id)
       ELSE UNCHANGED <<redis, activeTransports>>
    /\ sse' = [sse EXCEPT ![id].pc = IF sse[id].pc = "failing" THEN "failed" ELSE "closed"]
    /\ UNCHANGED <<now, sessions, msgs, sweep, evicted, bound>> /\ SseFrame

\* The client goes away: req emits 'close'. The listener of lines 123-126
\* runs if it is attached by then; an event emitted earlier has no listener.
ListenerAttached(pc) == pc = "open"

ClientClose(id) ==
    /\ sse[id].pc \in {"saving", "connecting", "open"}
    /\ sse[id].client = "up"
    /\ IF ListenerAttached(sse[id].pc)
       THEN /\ activeTransports' = DropLocal(activeTransports, id)
            /\ IF backend = "memory"
               THEN /\ sessions' = MemDelete(sessions, id)
                    /\ sse' = [sse EXCEPT ![id] = [pc |-> "closed", client |-> "gone"]]
               ELSE /\ sse' = [sse EXCEPT ![id] = [pc |-> "closing", client |-> "gone"]]
                    /\ UNCHANGED sessions
       ELSE /\ sse' = [sse EXCEPT ![id].client = "gone"]
            /\ UNCHANGED <<activeTransports, sessions>>
    /\ UNCHANGED <<now, redis, msgs, sweep, evicted, bound>> /\ SseFrame

\* POST /messages 154, 159: the answer once the lookup is through
NotFound == 404
BadRequest == 400
\* the response is written by transport.handlePostMessage
Handled == 202

Answer(msg, transport) ==
    [sessionId |-> msg.sessionId,
     status |-> IF transport = NoValue THEN NotFound ELSE Handled,
     handed |-> transport,
     at |-> IF transport = NoValue THEN NoTime ELSE now,
     afterEvict |-> msg.afterEvict, afterClose |-> msg.afterClose,
     afterDelete |-> msg.afterDelete]

\* POST /messages 143-156: the handle the request is routed to, given the
\* local entry and what the session store returns
Route(local, stored) == IF local # NoValue THEN local ELSE stored

\* POST /messages 136-147 (and on to the end with the memory store, whose
\* getSession does not wait)
MsgPost(m, id) ==
    /\ msgs[m].pc = "idle"
    /\ \A b \in Msgs : b < m => msgs[b].pc # "idle"
    /\ LET posted == [msgs[m] EXCEPT !.sessionId = id,
                         !.afterEvict = id \in evicted,
                         !.afterClose = id \in SessionIds /\ sse[id].client = "gone",
                         !.afterDelete = id \in SessionIds
                                           /\ sse[id].pc \in {"failed", "closed"}]
       IN  IF id = NoId
           THEN /\ answered' = [NoAnswer EXCEPT !.status = BadRequest]
                /\ UNCHANGED <<msgs, activeTransports, sessions>>
           ELSE IF activeTransports[id] # NoValue
           THEN /\ answered' = Answer(posted, Route(activeTransports[id], NoValue))
                /\ UNCHANGED <<msgs, activeTransports, sessions>>
           ELSE IF backend = "memory"
           THEN LET stored == MemGetReturn(sessions, id)
                IN  /\ sessions' = MemGet(sessions, id, now)
                    /\ activeTransports' =
                           IF stored # NoValue
                           THEN [activeTransports EXCEPT ![id] = stored]
                           ELSE activeTransports
                    /\ answered' = Answer(posted, Route(NoValue, stored))
                    /\ UNCHANGED msgs
           ELSE /\ msgs' = [msgs EXCEPT ![m] = [posted EXCEPT !.pc = "get"]]
                /\ UNCHANGED <<answered, activeTransports, sessions>>
    /\ UNCHANGED <<now, redis, sse, sweep, evicted, bound>> /\ AppFrame

\* RedisSessionStore.getSession 119-124: the GET answered (or failed, 134-136)
MsgGet(m, redisOk) ==
    /\ msgs[m].pc = "get"
    /\ LET data == IF redisOk THEN RedisGet(redis, msgs[m].sessionId, now) ELSE NoValue
       IN  IF data = NoValue
           THEN /\ answered' = Answer(msgs[m], Route(NoValue, NoValue))
                /\ msgs' = [msgs EXCEPT ![m] = IdleMsg]
           ELSE /\ msgs' = [msgs EXCEPT ![m].pc = "set", ![m].data = Refreshed(data, now)]
                /\ UNCHANGED answered
    /\ UNCHANGED <<now, activeTransports, sessions, redis, sse, sweep, evicted, bound>>
    /\ AppFrame

\* RedisSessionStore.getSession 126-133 and POST /messages 149-159
MsgSet(m, redisOk) ==
    /\ msgs[m].pc = "set"
    /\ LET id == msgs[m].sessionId
           stored == IF redisOk THEN LocalHandle(activeTransports, id) ELSE NoValue
       IN  /\ redis' = IF redisOk THEN RedisSet(redis, id, msgs[m].data, now) ELSE redis
           /\ answered' = Answer(msgs[m], Route(NoValue, stored))
           /\ msgs' = [msgs EXCEPT ![m] = IdleMsg]
    /\ UNCHANGED <<now, activeTransports, sessions, sse, sweep, evicted, bound>>
    /\ AppFrame

\* The clock reaches the next period of the setInterval timer. An await of
\* a handler (a Redis round trip, mcpServer.connect) and the previous sweep
\* take less than a period.
SessTick ==
    /\ now < MaxTicks * CleanupIntervalMs
    /\ \A id \in SessionIds :
           sse[id].pc \notin {"saving", "connecting", "closing", "failing"}
    /\ \A m \in Msgs : msgs[m].pc = "idle"
    /\ sweep = "idle"
    /\ now' = now + CleanupIntervalMs
    /\ redis' = RedisExpire(redis, now')
    /\ sweep' = "due"
    /\ UNCHANGED <<activeTransports, sessions, sse, msgs, evicted, bound>> /\ SseFrame

\* index.ts 167-169: the timer callback calls cleanupSessions(60 * 60 * 1000)
SweepRun ==
    /\ sweep = "due"
    /\ IF backend = "memory"
       THEN /\ sessions' = MemCleanup(sessions, CleanupMaxAgeMs, now)
            /\ evicted' = evicted \cup
                   {id \in AllIds : sessions[id] # NoValue /\ sessions'[id] = NoValue}
            /\ sweep' = "idle"
       ELSE /\ sweep' = "keys"
            /\ UNCHANGED <<sessions, evicted>>
    /\ UNCHANGED <<now, activeTransports, redis, sse, msgs, bound>> /\ SseFrame

\* RedisSessionStore.cleanupSessions 161-173: KEYS answered, or failed
SweepKeys(redisOk) ==
    /\ sweep = "keys"
    /\ activeTransports' =
           IF redisOk THEN PruneLocal(activeTransports, RedisKeys(redis, now))
           ELSE activeTransports
    /\ evicted' = evicted \cup
           {id \in AllIds : /\ bound[id] # NoValue
                            /\ activeTransports[id] # NoValue
                            /\ activeTransports'[id] = NoValue}
    /\ sweep' = "idle"
    /\ UNCHANGED <<now, sessions, redis, sse, msgs, bound>> /\ SseFrame

\* The lazy connect of the Redis stores. isConnected: the flag of each
\* store; connects: how often client.connect() was invoked on its client;
\* ops: the store calls, with late set when the call invoked connect() on a
\* client that had been asked to connect before
Stores == {"session", "history"}
Ops == 1..MaxOps
IdleOp == [pc |-> "idle", store |-> "session", method |-> "none", late |-> FALSE,
           ret |-> "none"]
NoConn ==
    [isConnected |-> [st \in Stores |-> FALSE], connects |-> [st \in Stores |-> 0],
     ops |-> [o \in Ops |-> IdleOp]]

HandlersIdle ==
    /\ activeTransports = [id \in AllIds |-> NoValue]
    /\ sessions = [id \in AllIds |-> NoValue]
    /\ redis = [id \in AllIds |-> NoValue]
    /\ sse = [id \in SessionIds |-> [pc |-> "idle", client |-> "up"]]
    /\ msgs = [m \in Msgs |-> IdleMsg]
    /\ sweep = "idle"
    /\ evicted = {}
    /\ storeCall = NoCall
    /\ answered = NoAnswer
    /\ histCall = NoHistCall
    /\ idCall = NoIdCall
    /\ conn = NoConn
    /\ bound = [id \in AllIds |-> NoValue]

\* the handlers at rest in a process whose requests pass the bearer-token
\* check (AUTH_DISABLED is 'true', or every request carries a valid token)
SessIdle == HandlersIdle /\ authDisabled = TRUE

\* Another process runs GET /sse: its saveSession writes the key (session.ts
\* 97-105); the transport is in that process's activeTransports, not here.
PeerSave(id) ==
    /\ backend = "redis"
    /\ bound[id] = NoValue
    /\ redis' = RedisSet(redis, id, NewSessionData(id, now), now)
    /\ bound' = [bound EXCEPT ![id] = Transport(id)]
    /\ UNCHANGED <<now, activeTransports, sessions, sse, msgs, sweep, evicted>>
    /\ SseFrame

SessInit ==
    /\ now = 0
    /\ DbInit
    /\ backend \in {"memory", "redis"}
    /\ SessIdle

SessNext ==
    \/ SessTick
    \/ SweepRun
    \/ \E ok \in BOOLEAN : SweepKeys(ok)
    \/ \E id \in SessionIds : SseOpen(id)
    \/ \E id \in SessionIds : SseSaveOk(id)
    \/ \E id \in SessionIds : SseSaveFail(id)
    \/ \E id \in SessionIds : SseConnectOk(id)
    \/ \E id \in SessionIds : SseConnectFail(id)
    \/ \E id \in SessionIds, ok \in BOOLEAN : SseDelete(id, ok)
    \/ \E id \in SessionIds : ClientClose(id)
    \/ \E m \in Msgs, id \in AllIds \cup {NoId} : MsgPost(m, id)
    \/ \E m \in Msgs, ok \in BOOLEAN : MsgGet(m, ok)
    \/ \E m \in Msgs, ok \in BOOLEAN : MsgSet(m, ok)

SessSpec == SessInit /\ [][SessNext]_vars

(***************************************************************************)
(* SweepSpec: one server process on the memory session store, with the     *)
(* timer that keeps firing: the clock reaches every period, the callback   *)
(* runs when it is due and mcpServer.connect settles.                      *)
(***************************************************************************)
SweepInit == now = 0 /\ DbInit /\ backend = "memory" /\ SessIdle

\* the awaited mcpServer.connect of a /sse handler settles
ConnectSettles == \E id \in SessionIds : SseConnectOk(id) \/ SseConnectFail(id)

SweepNext ==
    \/ SessTick
    \/ SweepRun
    \/ \E id \in SessionIds : SseOpen(id)
    \/ \E id \in SessionIds : SseConnectOk(id)
    \/ \E id \in SessionIds : SseConnectFail(id)
    \/ \E id \in SessionIds : ClientClose(id)
    \/ \E m \in Msgs, id \in AllIds \cup {NoId} : MsgPost(m, id)

SweepFairness == WF_vars(SessTick) /\ WF_vars(SweepRun) /\ WF_vars(ConnectSettles)

SweepSpec == SweepInit /\ [][SweepNext]_vars /\ SweepFairness

(***************************************************************************)
(* ConnSpec: first calls on the Redis stores of a process that has not     *)
(* connected yet. The Redis server is reachable: a connect() on a client   *)
(* nobody has asked to connect resolves.                                   *)
(***************************************************************************)
\* the methods that go through connect(), per store
Methods ==
    [session |-> {"saveSession", "getSession"},
     history |-> {"recordQuery", "getRecentQueries"}]

\* session.ts 134-137, query-history.ts 151-154: the catch returns null or
\* []; session.ts 109-112, query-history.ts 115-118: the catch rethrows
Swallows(method) == method \in {"getSession", "getRecentQueries"}

ConnFrame ==
    UNCHANGED <<now, dbVars, backend, activeTransports, sessions, redis, sse, msgs,
                sweep, evicted, storeCall, answered, histCall, idCall, authDisabled, bound>>

\* session.ts 84-86, query-history.ts 85-87: the method is entered; with the
\* flag unset it invokes client.connect() and waits
OpBegin(o, st, method) ==
    /\ conn.ops[o].pc = "idle"
    /\ \A b \in Ops : b < o => conn.ops[b].pc # "idle"
    /\ method \in Methods[st]
    /\ LET op == [IdleOp EXCEPT !.store = st, !.method = method]
       IN  IF conn.isConnected[st]
           THEN conn' = [conn EXCEPT !.ops[o] = [op EXCEPT !.pc = "command"]]
           ELSE conn' = [conn EXCEPT
                             !.connects[st] = @ + 1,
                             !.ops[o] = [op EXCEPT !.pc = "connecting",
                                                   !.late = conn.connects[st] > 0]]
    /\ ConnFrame

\* session.ts 86-87: client.connect() resolved and the flag is set
OpConnected(o) ==
    /\ conn.ops[o].pc = "connecting"
    /\ conn' = [conn EXCEPT !.isConnected[conn.ops[o].store] = TRUE,
                            !.ops[o].pc = "command"]
    /\ ConnFrame

\* client.connect() on a client that is connecting or connected rejects
\* (node-redis: "Socket already opened"); the method's catch takes over
OpRefused(o) ==
    /\ conn.ops[o].pc = "connecting"
    /\ conn.ops[o].late
    /\ conn' = [conn EXCEPT !.ops[o].pc = "done",
                            !.ops[o].ret = IF Swallows(conn.ops[o].method)
                                           THEN "nothing" ELSE "threw"]
    /\ ConnFrame

\* the commands of the method were answered
OpAnswered(o) ==
    /\ conn.ops[o].pc = "command"
    /\ conn' = [conn EXCEPT !.ops[o].pc = "done", !.ops[o].ret = "answer"]
    /\ ConnFrame

ConnNext ==
    \/ \E o \in Ops, st \in Stores, method \in {"saveSession", "getSession",
                                                  "recordQuery", "getRecentQueries"} :
           OpBegin(o, st, method)
    \/ \E o \in Ops : OpConnected(o)
    \/ \E o \in Ops : OpRefused(o)
    \/ \E o \in Ops : OpAnswered(o)

ConnInit == now = 0 /\ DbInit /\ backend = "redis" /\ SessIdle

ConnSpec == ConnInit /\ [][ConnNext]_vars

(***************************************************************************)
(* AuthSpec: POST /messages behind the bearer-token check (authMiddleware  *)
(* of src/auth.ts, mounted in index.ts before the routes; the same check   *)
(* is inlined in api/messages.ts 15-30).                                   *)
(***************************************************************************)
Unauthorized == 401

\* req.headers.authorization: absent, or a scheme and what follows the
\* first blank
Headers == {NoValue} \cup [scheme : {"Basic", "Bearer"}, token : {"", "forged", "signed"}]

\* auth.ts 30-36: jwt.verify against JWT_SECRET, null when it throws
verifyToken(token) == IF token = "signed" THEN Some(token) ELSE NoValue

\* skips the signature check
AuthorizedAnyBearer(header) ==
    \/ authDisabled
    \/ /\ header # NoValue
       /\ header.scheme = "Bearer"

\* auth.ts 43-45 and 54-64 (api/messages.ts 15-26): the request goes on to
\* the handler
Authorized(header) ==
    \/ authDisabled
    \/ /\ header # NoValue
       /\ header.scheme = "Bearer"
       /\ verifyToken(header.token) # NoValue

\* api/messages.ts 13-59; index.ts 91 followed by 135-165
AuthMsgPost(m, id, header) ==
    IF Authorized(header)
    THEN MsgPost(m, id)
    ELSE /\ msgs[m].pc = "idle"
         /\ \A b \in Msgs : b < m => msgs[b].pc # "idle"
         /\ answered' = [NoAnswer EXCEPT !.status = Unauthorized, !.sessionId = id]
         /\ UNCHANGED <<now, activeTransports, sessions, redis, sse, msgs, sweep,
                        evicted, bound>>
         /\ AppFrame

AuthInit ==
    /\ now = 0
    /\ DbInit
    /\ backend \in {"memory", "redis"}
    /\ HandlersIdle
    /\ authDisabled \in BOOLEAN

\* one period of the timer: a refresh by getSession after it is visible in
\* lastAccessed
AuthTick == now = 0 /\ SessTick

AuthNext ==
    \/ AuthTick
    \/ SweepRun
    \/ \E ok \in BOOLEAN : SweepKeys(ok)
    \/ \E id \in SessionIds : SseOpen(id)
    \/ \E id \in SessionIds : SseSaveOk(id)
    \/ \E id \in SessionIds : SseConnectOk(id)
    \/ \E id \in SessionIds : ClientClose(id)
    \/ \E id \in PeerIds : PeerSave(id)
    \/ \E m \in Msgs, id \in AllIds \cup {NoId}, header \in Headers :
           AuthMsgPost(m, id, header)
    \/ \E m \in Msgs, ok \in BOOLEAN : MsgGet(m, ok)
    \/ \E m \in Msgs, ok \in BOOLEAN : MsgSet(m, ok)

AuthSpec == AuthInit /\ [][AuthNext]_vars

(***************************************************************************)
(* PeerSpec: two server processes on one Redis. The channel is opened on   *)
(* the other process; this one receives the messages and runs its sweep.   *)
(***************************************************************************)
PeerInit ==
    /\ now = 0
    /\ DbInit
    /\ backend = "redis"
    /\ SessIdle

PeerNext ==
    \/ SessTick
    \/ SweepRun
    \/ \E ok \in BOOLEAN : SweepKeys(ok)
    \/ \E id \in PeerIds : PeerSave(id)
    \/ \E m \in Msgs, id \in PeerIds \cup {BogusId} : MsgPost(m, id)
    \/ \E m \in Msgs, ok \in BOOLEAN : MsgGet(m, ok)
    \/ \E m \in Msgs, ok \in BOOLEAN : MsgSet(m, ok)

PeerSpec == PeerInit /\ [][PeerNext]_vars

StoreInit ==
    /\ now = 0
    /\ DbInit
    /\ backend \in {"memory", "redis"}
    /\ SessIdle

StoreNext ==
    \/ StoreTick
    \/ \E id \in StoreIds, t \in StoreIds, ok \in BOOLEAN :
           StoreSave(id, Transport(t), ok)
    \/ \E id \in AllIds, getOk \in BOOLEAN, setOk \in BOOLEAN : StoreGet(id, getOk, setOk)
    \/ \E id \in AllIds, ok \in BOOLEAN : StoreDelete(id, ok)
    \/ \E maxAgeMs \in StoreMaxAges, ok \in BOOLEAN : StoreCleanup(maxAgeMs, ok)
    \/ \E id \in StoreIds : StoreLocalDelete(id)

StoreSpec == StoreInit /\ [][StoreNext]_vars

Init == now = 0 /\ DbInit /\ backend = "memory" /\ SessIdle

Next ==
    \/ DbTick
    \/ \E c \in Calls : \E r \in RequestsOf(c) : QueryBegin(c, r[1], r[2])
    \/ \E c \in Calls : ConnectOk(c)
    \/ \E c \in Calls, cause \in ConnectErrors : ConnectFail(c, cause)
    \/ \E c \in Calls : StatementStart(c)
    \/ \E c \in Calls, rowCount \in RowCounts : StatementOk(c, rowCount)
    \/ \E c \in Calls, message \in DriverErrors : StatementErr(c, message)
    \/ \E c \in Calls : QueryEnd(c)

Spec == Init /\ [][Next]_vars

(***************************************************************************)
(* CloseSpec: queries that succeed, and one call of PostgresClient.close.  *)
(***************************************************************************)
PoolIds == 1..MaxCalls

CloseNext ==
    \/ \E c \in Calls : \E r \in RequestsOf(c) : QueryBegin(c, r[1], r[2])
    \/ \E c \in Calls : ConnectOk(c)
    \/ \E c \in Calls : StatementStart(c)
    \/ \E c \in Calls, rowCount \in RowCounts : StatementOk(c, rowCount)
    \/ \E c \in Calls : QueryEnd(c)
    \/ CloseBegin
    \/ \E failed \in SUBSET PoolIds : CloseSettle(failed)

CloseSpec == Init /\ [][CloseNext]_vars

(***************************************************************************)
(* DisconnectSpec: one channel and the queries of the tool calls that      *)
(* arrive over it (memory stores).  A tool call starts only while the      *)
(* channel is open; the client may go away at any time.  The driver        *)
(* answers every connect and every statement, and the event loop runs      *)
(* every continuation that is ready: weak fairness on the steps of a call. *)
(***************************************************************************)
ToolQuery(c, config, query) ==
    /\ sse[Requester].pc = "open"
    /\ QueryBegin(c, config, query)

InFlight(c) == calls[c].pc \notin {"idle", "done"}

DisconnectNext ==
    \/ SseOpen(Requester)
    \/ SseConnectOk(Requester)
    \/ ClientClose(Requester)
    \/ \E c \in Calls : \E r \in RequestsOf(c) : ToolQuery(c, r[1], r[2])
    \/ \E c \in Calls : ConnectOk(c)
    \/ \E c \in Calls, cause \in ConnectErrors : ConnectFail(c, cause)
    \/ \E c \in Calls : StatementStart(c)
    \/ \E c \in Calls, rowCount \in RowCounts : StatementOk(c, rowCount)
    \/ \E c \in Calls, message \in DriverErrors : StatementErr(c, message)
    \/ \E c \in Calls : QueryEnd(c)

\* the next step of a call that has begun
CallStep(c) ==
    \/ ConnectOk(c)
    \/ \E cause \in ConnectErrors : ConnectFail(c, cause)
    \/ StatementStart(c)
    \/ \E rowCount \in RowCounts : StatementOk(c, rowCount)
    \/ \E message \in DriverErrors : StatementErr(c, message)
    \/ QueryEnd(c)

CallFairness(c) == WF_vars(CallStep(c))

DisconnectSpec == Init /\ [][DisconnectNext]_vars /\ \A c \in Calls : CallFairness(c)

(***************************************************************************)
(* ToolSpec: the query tool (src/unnamed/part_008) over the pool manager.  *)
(***************************************************************************)
\* part_008 14-21: the descriptor the environment variables give
DefaultDbConfig ==
    CHOOSE config \in Configs :
        config.user = "alice" /\ config.password = "pw1" /\ ~config.ssl

ToolInputs == {"", " ", "SELECT 1", Inserting, Deleting}

\* part_008 29: !sql.trim()
IsBlank(sql) == sql \in {"", " "}

\* part_008 35-39: readOnlySql
Wrap(sql) ==
    "BEGIN TRANSACTION ISOLATION LEVEL SERIALIZABLE READ ONLY; " \o sql \o "; COMMIT;"

\* part_008 43: the text handed to postgresClient.query
Submitted(sql) == sql

\* part_008 28-43: up to the first await of postgresClient.query
QueryTool(c, sql) ==
    /\ ~IsBlank(sql)
    /\ QueryBegin(c, DefaultDbConfig, Submitted(sql))

ToolNext ==
    \/ \E c \in Calls, sql \in ToolInputs : QueryTool(c, sql)
    \/ \E c \in Calls : ConnectOk(c)
    \/ \E c \in Calls, cause \in ConnectErrors : ConnectFail(c, cause)
    \/ \E c \in Calls : StatementStart(c)
    \/ \E c \in Calls, rowCount \in RowCounts : StatementOk(c, rowCount)
    \/ \E c \in Calls, message \in DriverErrors : StatementErr(c, message)
    \/ \E c \in Calls : QueryEnd(c)

ToolSpec == Init /\ [][ToolNext]_vars

(***************************************************************************)
(* SharedSpec: the pool manager with REDIS_URL set, so that                *)
(* createQueryHistoryStore() returned the Redis store; its commands may    *)
(* fail.                                                                   *)
(***************************************************************************)
SharedInit == now = 0 /\ DbInit /\ backend = "redis" /\ SessIdle

SharedNext ==
    \/ DbTick
    \/ \E c \in Calls : \E r \in RequestsOf(c) : QueryBegin(c, r[1], r[2])
    \/ \E c \in Calls : ConnectOk(c)
    \/ \E c \in Calls, cause \in ConnectErrors : ConnectFail(c, cause)
    \/ \E c \in Calls : StatementStart(c)
    \/ \E c \in Calls, rowCount \in RowCounts : StatementOk(c, rowCount)
    \/ \E c \in Calls, message \in DriverErrors : StatementErr(c, message)
    \/ \E c \in Calls, ok \in BOOLEAN, cause \in HistoryErrors : RecordSet(c, ok, cause)
    \/ \E c \in Calls, ok \in BOOLEAN, cause \in HistoryErrors : RecordAdd(c, ok, cause)

SharedSpec == SharedInit /\ [][SharedNext]_vars

(***************************************************************************)
(* RaceSpec: SharedSpec with one clearHistory call of the Redis store      *)
(* running command by command next to the recordQuery calls of the         *)
(* queries; every Redis command is answered.                               *)
(***************************************************************************)
RaceFrame ==
    UNCHANGED <<now, clients, stats, history, nextPool, nextEntryId, calls, shutdown, db,
                backend, activeTransports, sessions, redis, sse, msgs, sweep, evicted,
                storeCall, answered, idCall, authDisabled, conn, bound>>

\* query-history.ts 176-183: clearHistory is called and its ZRANGE answered
ClearRange(key) ==
    /\ histCall.op = "none"
    /\ histCall' = [n |-> 0, op |-> "clear", pc |-> "entries", key |-> key,
                    ids |-> {x.value : x \in rq.lists[key]},
                    log |-> <<>>, cleared |-> {}]
    /\ UNCHANGED rq /\ RaceFrame

\* query-history.ts 186-190: the DELs of the entry keys answered
ClearEntries ==
    /\ histCall.op = "clear" /\ histCall.pc = "entries"
    /\ rq' = [rq EXCEPT !.entries = {data \in @ : data.id \notin histCall.ids}]
    /\ histCall' = [histCall EXCEPT !.pc = "list"]
    /\ RaceFrame

\* query-history.ts 193-194: the DEL of the list answered
ClearList ==
    /\ histCall.op = "clear" /\ histCall.pc = "list"
    /\ rq' = [rq EXCEPT !.lists[histCall.key] = {}]
    /\ histCall' = [histCall EXCEPT !.pc = "done", !.cleared = {histCall.key}]
    /\ RaceFrame

RaceNext ==
    \/ \E c \in Calls : \E r \in RequestsOf(c) : QueryBegin(c, r[1], r[2])
    \/ \E c \in Calls : ConnectOk(c)
    \/ \E c \in Calls : StatementStart(c)
    \/ \E c \in Calls, rowCount \in RowCounts : StatementOk(c, rowCount)
    \/ \E c \in Calls, cause \in HistoryErrors : RecordSet(c, TRUE, cause)
    \/ \E c \in Calls, cause \in HistoryErrors : RecordAdd(c, TRUE, cause)
    \/ \E key \in Keys : ClearRange(key)
    \/ ClearEntries
    \/ ClearList

RaceSpec == SharedInit /\ [][RaceNext]_vars

(***************************************************************************)
(* Query history stores (src/src/query-history.ts)                         *)
(***************************************************************************)
\* Array.prototype.sort with (a, b) => b.timestamp - a.timestamp is stable:
\* an entry goes behind every entry that is not older
RECURSIVE InsertByTimestamp(_, _)
InsertByTimestamp(sorted, e) ==
    IF sorted = <<>> THEN <<e>>
    ELSE IF Head(sorted).timestamp >= e.timestamp
         THEN <<Head(sorted)>> \o InsertByTimestamp(Tail(sorted), e)
         ELSE <<e>> \o sorted

RECURSIVE SortNewestFirst(_)
SortNewestFirst(seq) ==
    IF seq = <<>> THEN <<>>
    ELSE InsertByTimestamp(SortNewestFirst(SubSeq(seq, 1, Len(seq) - 1)), seq[Len(seq)])

\* Array.prototype.slice(0, limit), limit >= 0
Slice(seq, limit) == SubSeq(seq, 1, IF limit < Len(seq) THEN limit ELSE Len(seq))

DefaultLimit == 50

\* MemoryQueryHistoryStore.getRecentQueries 51-56
getRecentQueries(h, key, limit) ==
    Slice(SortNewestFirst(SelectSeq(h, LAMBDA e : e.dbConnectionId = key)), limit)

\* MemoryQueryHistoryStore.getQueryById 58-60
getQueryById(h, id) ==
    IF \E i \in 1..Len(h) : h[i].id = id
    THEN h[CHOOSE i \in 1..Len(h) : h[i].id = id /\ \A j \in 1..(i - 1) : h[j].id # id]
    ELSE NoValue

\* MemoryQueryHistoryStore.clearHistory 62-64
clearHistory(h, key) == SelectSeq(h, LAMBDA e : e.dbConnectionId # key)

\* the members of prefix + key + ":list"
ListedIds(q, key) == {x.value : x \in q.lists[key]}

\* ZRANGE ... REV: by score descending; members of equal score come in the
\* reverse lexicographic order of the member, a uuid, which is any order as
\* far as the order of recording goes
RECURSIVE ZRevOrders(_)
ZRevOrders(list) ==
    IF list = {} THEN {<<>>}
    ELSE UNION {{<<x>> \o s : s \in ZRevOrders(list \ {x})} :
                   x \in {y \in list : \A z \in list : y.score >= z.score}}

\* ZRANGE key 0 stop REV; stop = -1 is the last member
ZRevRange(list, stop) ==
    {IF stop = -1 THEN s ELSE Slice(s, stop + 1) : s \in ZRevOrders(list)}

\* RedisQueryHistoryStore.getRecentQueries 125-150: the lists it can return
\* when its commands are answered
RedisRecentQueries(q, key, limit) ==
    {SelectSeq([i \in 1..Len(ids) |-> RqGet(q, ids[i].value)], LAMBDA e : e # NoValue) :
        ids \in ZRevRange(q.lists[key], limit - 1)}

\* client.del of entry keys, 187-191
RqDel(q, ids) == [q EXCEPT !.entries = {data \in @ : data.id \notin ids}]

\* client.del(prefix + key + ":list"), 194
RqDelList(q, key) == [q EXCEPT !.lists[key] = {}]

\* RedisQueryHistoryStore.clearHistory 174-197. failed: the command that
\* threw, "none" if all were answered; deleted: the entry keys whose DEL went
\* through before Promise.all rejected
ClearStages == {"range", "entries", "list", "none"}

RedisClearHistory(q, key, failed, deleted) ==
    IF failed = "range" THEN q
    ELSE IF failed = "entries" THEN RqDel(q, deleted)
    ELSE IF failed = "list" THEN RqDel(q, ListedIds(q, key))
    ELSE RqDelList(RqDel(q, ListedIds(q, key)), key)

(***************************************************************************)
(* HistSpec: the QueryHistoryStore methods called directly, one after the  *)
(* other, against either store; a Redis command may fail.                  *)
(***************************************************************************)
Limits == 0..MaxLimit \cup {DefaultLimit}
EntryIds == 0..MaxHistCalls

HistFrame ==
    UNCHANGED <<clients, stats, nextPool, calls, shutdown, db, backend, activeTransports, sessions,
                redis, sse, msgs, sweep, evicted, storeCall, answered, idCall, authDisabled,
                conn, bound>>

\* recordQuery(entry); setOk, addOk: the SET and the ZADD were answered
HistRecord(key, setOk, addOk) ==
    /\ histCall.n < MaxHistCalls
    /\ LET input == HistoryInput(key, "select 1", [rowCount |-> 1], NoValue, 0)
           newEntry == NewEntry(input, nextEntryId + 1, now)
           returned == setOk /\ addOk
       IN  /\ IF backend = "memory"
              THEN /\ returned
                   /\ history' = recordQuery(history, input, nextEntryId + 1, now)
                   /\ UNCHANGED rq
              ELSE /\ setOk \/ addOk
                   /\ rq' = IF returned THEN RqZAdd(RqSet(rq, newEntry), newEntry)
                            ELSE IF setOk THEN RqSet(rq, newEntry)
                            ELSE rq
                   /\ UNCHANGED history
           /\ histCall' = [n |-> histCall.n + 1, op |-> "record", key |-> key,
                           ret |-> IF returned THEN newEntry ELSE NoValue,
                           threw |-> ~returned,
                           log |-> IF returned THEN Append(histCall.log, newEntry)
                                   ELSE histCall.log,
                           cleared |-> histCall.cleared]
    /\ nextEntryId' = nextEntryId + 1
    /\ UNCHANGED now /\ HistFrame

\* getRecentQueries(key, limit); ok: the Redis commands were answered
HistRecent(key, limit, ok) ==
    /\ histCall.n < MaxHistCalls
    /\ backend = "memory" => ok
    /\ \E ret \in IF backend = "memory" THEN {getRecentQueries(history, key, limit)}
                  ELSE IF ok THEN RedisRecentQueries(rq, key, limit)
                  ELSE {<<>>} :
           histCall' = [n |-> histCall.n + 1, op |-> "recent", key |-> key,
                        limit |-> limit, ret |-> ret, ok |-> ok, threw |-> FALSE,
                        log |-> histCall.log, cleared |-> histCall.cleared]
    /\ UNCHANGED <<now, history, rq, nextEntryId>> /\ HistFrame

\* getQueryById(id)
HistById(id, ok) ==
    /\ histCall.n < MaxHistCalls
    /\ backend = "memory" => ok
    /\ histCall' = [n |-> histCall.n + 1, op |-> "byId", id |-> id,
                    ret |-> IF backend = "memory" THEN getQueryById(history, id)
                            ELSE IF ok THEN RqGet(rq, id)
                            ELSE NoValue,
                    ok |-> ok, threw |-> FALSE,
                    log |-> histCall.log, cleared |-> histCall.cleared]
    /\ UNCHANGED <<now, history, rq, nextEntryId>> /\ HistFrame

\* clearHistory(key)
HistClear(key, failed, deleted) ==
    /\ histCall.n < MaxHistCalls
    /\ IF backend = "memory"
       THEN /\ failed = "none" /\ deleted = {}
            /\ history' = clearHistory(history, key)
            /\ UNCHANGED rq
       ELSE /\ IF failed = "entries"
               THEN deleted \subseteq ListedIds(rq, key) /\ deleted # ListedIds(rq, key)
               ELSE deleted = {}
            /\ rq' = RedisClearHistory(rq, key, failed, deleted)
            /\ UNCHANGED history
    /\ histCall' = [n |-> histCall.n + 1, op |-> "clear", key |-> key,
                    failed |-> failed, threw |-> FALSE,
                    log |-> histCall.log, cleared |-> histCall.cleared \cup {key}]
    /\ UNCHANGED <<now, nextEntryId>> /\ HistFrame

\* new Date() advances between two calls
HistTick ==
    /\ now < MaxHistTime
    /\ now' = now + 1
    /\ UNCHANGED <<history, rq, nextEntryId, histCall>> /\ HistFrame

HistInit == now = 0 /\ DbInit /\ backend \in {"memory", "redis"} /\ SessIdle

HistNext ==
    \/ HistTick
    \/ \E key \in Keys, setOk \in BOOLEAN, addOk \in BOOLEAN : HistRecord(key, setOk, addOk)
    \/ \E key \in Keys, limit \in Limits, ok \in BOOLEAN : HistRecent(key, limit, ok)
    \/ \E id \in EntryIds, ok \in BOOLEAN : HistById(id, ok)
    \/ \E key \in Keys, failed \in ClearStages, deleted \in SUBSET EntryIds :
           HistClear(key, failed, deleted)

HistSpec == HistInit /\ [][HistNext]_vars

(***************************************************************************)
(* TwinSpec: the same record and clear calls made on a memory store and on *)
(* a Redis store whose commands are all answered; the uuids drawn are the  *)
(* same on both sides and no two records fall into one millisecond.        *)
(***************************************************************************)
\* timestamp of the last record
LastStamp == IF histCall.log = <<>> THEN NoTime ELSE histCall.log[Len(histCall.log)].timestamp

\* recordQuery(entry) on both stores
TwinRecord(key) ==
    /\ histCall.n < MaxHistCalls
    /\ LastStamp < now
    /\ LET input == HistoryInput(key, "select 1", [rowCount |-> 1], NoValue, 0)
           newEntry == NewEntry(input, nextEntryId + 1, now)
       IN  /\ history' = recordQuery(history, input, nextEntryId + 1, now)
           /\ rq' = RqZAdd(RqSet(rq, newEntry), newEntry)
           /\ histCall' = [n |-> histCall.n + 1, op |-> "record", key |-> key,
                           log |-> Append(histCall.log, newEntry),
                           cleared |-> histCall.cleared]
    /\ nextEntryId' = nextEntryId + 1
    /\ UNCHANGED now /\ HistFrame

\* clearHistory(key) on both stores
TwinClear(key) ==
    /\ histCall.n < MaxHistCalls
    /\ history' = clearHistory(history, key)
    /\ rq' = RedisClearHistory(rq, key, "none", {})
    /\ histCall' = [n |-> histCall.n + 1, op |-> "clear", key |-> key,
                    log |-> histCall.log, cleared |-> histCall.cleared \cup {key}]
    /\ UNCHANGED <<now, nextEntryId>> /\ HistFrame

\* getRecentQueries(key, limit) on both stores; shared: the lists the Redis
\* store can return
TwinRecent(key, limit) ==
    /\ histCall.op \in {"record", "clear"}
    /\ histCall' = [n |-> histCall.n, op |-> "recent", key |-> key, limit |-> limit,
                    local |-> getRecentQueries(history, key, limit),
                    shared |-> RedisRecentQueries(rq, key, limit),
                    log |-> histCall.log, cleared |-> histCall.cleared]
    /\ UNCHANGED <<now, history, rq, nextEntryId>> /\ HistFrame

\* getQueryById(id) on both stores
TwinById(id) ==
    /\ histCall.op \in {"record", "clear"}
    /\ histCall' = [n |-> histCall.n, op |-> "byId", id |-> id,
                    local |-> getQueryById(history, id),
                    shared |-> RqGet(rq, id),
                    log |-> histCall.log, cleared |-> histCall.cleared]
    /\ UNCHANGED <<now, history, rq, nextEntryId>> /\ HistFrame

\* the next millisecond
TwinTick ==
    /\ LastStamp = now
    /\ now' = now + 1
    /\ UNCHANGED <<history, rq, nextEntryId, histCall>> /\ HistFrame

TwinInit == now = 0 /\ DbInit /\ backend = "memory" /\ SessIdle

TwinNext ==
    \/ TwinTick
    \/ \E key \in Keys : TwinRecord(key)
    \/ \E key \in Keys : TwinClear(key)
    \/ \E key \in Keys, limit \in Limits : TwinRecent(key, limit)
    \/ \E id \in EntryIds : TwinById(id)

TwinSpec == TwinInit /\ [][TwinNext]_vars

(***************************************************************************)
(* CapSpec: the memory history store filled past its 1000 entries.  The    *)
(* fingerprint of a record is free for the first record and from the       *)
(* 1000th on, and alternates in between; clearHistory is called at most    *)
(* once, when the store is full.                                           *)
(***************************************************************************)
KeyOfUser(user) ==
    getConnectionId(CHOOSE config \in Configs :
                        config.user = user /\ config.password = "pw1")

CapKeys(k) ==
    IF k = 1 \/ k >= HistoryCap THEN Keys
    ELSE {KeyOfUser(IF k % 2 = 0 THEN "alice" ELSE "bob")}

\* MemoryQueryHistoryStore.recordQuery 34-49, the k-th call
CapRecord(key) ==
    /\ backend = "memory"
    /\ nextEntryId < MaxRecords
    /\ key \in CapKeys(nextEntryId + 1)
    /\ history' = recordQuery(history,
                      HistoryInput(key, "select 1", [rowCount |-> 1], NoValue, 0),
                      nextEntryId + 1, now)
    /\ nextEntryId' = nextEntryId + 1
    /\ UNCHANGED <<now, rq, histCall>> /\ HistFrame

\* MemoryQueryHistoryStore.clearHistory 62-64
CapClear(key) ==
    /\ backend = "memory"
    /\ Len(history) = HistoryCap
    /\ histCall.cleared = {}
    /\ history' = clearHistory(history, key)
    /\ histCall' = [histCall EXCEPT !.cleared = {key}]
    /\ UNCHANGED <<now, rq, nextEntryId>> /\ HistFrame

CapInit == now = 0 /\ DbInit /\ backend = "memory" /\ SessIdle

CapNext ==
    \/ \E key \in Keys : CapRecord(key)
    \/ \E key \in Keys : CapClear(key)

CapSpec == CapInit /\ [][CapNext]_vars

(***************************************************************************)
(* PageSpec: either history store filled past the default limit of         *)
(* getRecentQueries.  The record calls are answered; the fingerprint of a  *)
(* record is free for the first record and from the 50th on and is alice's *)
(* in between; the clock advances by one with every record, except that   *)
(* the 51st may carry the timestamp of the 50th.                           *)
(***************************************************************************)
PageKeys(k) ==
    IF k = 1 \/ k >= DefaultLimit THEN Keys ELSE {KeyOfUser("alice")}

PageTimes(k, time) ==
    IF k = DefaultLimit + 1 THEN {time, time + 1} ELSE {time + 1}

\* recordQuery, the k-th call, at time
PageRecord(key, time) ==
    /\ nextEntryId < MaxPageRecords
    /\ key \in PageKeys(nextEntryId + 1)
    /\ time \in PageTimes(nextEntryId + 1, now)
    /\ now' = time
    /\ LET input == HistoryInput(key, "select 1", [rowCount |-> 1], NoValue, 0)
           newEntry == NewEntry(input, nextEntryId + 1, time)
       IN  IF backend = "memory"
           THEN /\ history' = recordQuery(history, input, nextEntryId + 1, time)
                /\ UNCHANGED rq
           ELSE /\ rq' = RqZAdd(RqSet(rq, newEntry), newEntry)
                /\ UNCHANGED history
    /\ nextEntryId' = nextEntryId + 1
    /\ histCall' = [NoHistCall EXCEPT !.op = "record"]
    /\ HistFrame

\* getRecentQueries(key): limit is undefined and defaults to 50 (51, 121)
PageRecent(key, ok) ==
    /\ backend = "memory" => ok
    /\ \E ret \in IF backend = "memory"
                  THEN {getRecentQueries(history, key, DefaultLimit)}
                  ELSE IF ok THEN RedisRecentQueries(rq, key, DefaultLimit)
                  ELSE {<<>>} :
           histCall' = [NoHistCall EXCEPT !.op = "recent"] @@
                       [key |-> key, limit |-> DefaultLimit, ret |-> ret, ok |-> ok]
    /\ UNCHANGED <<now, history, rq, nextEntryId>> /\ HistFrame

PageInit == now = 0 /\ DbInit /\ backend \in {"memory", "redis"} /\ SessIdle

PageNext ==
    \/ \E key \in Keys, time \in 1..(MaxPageRecords + 1) : PageRecord(key, time)
    \/ \E key \in Keys, ok \in BOOLEAN : PageRecent(key, ok)

PageSpec == PageInit /\ [][PageNext]_vars

(***************************************************************************)
(* IdSpec: getConnectionId applied to two descriptors (DbConfigSchema,     *)
(* database.ts 6-13; ssl is optional).                                     *)
(***************************************************************************)
Descriptors ==
    [host : {"h", "h2"}, port : {5432, 5433}, database : {"db", "db2"},
     user : {"alice", "bob"}, password : {"pw1", ""},
     ssl : {NoValue, Some(TRUE), Some(FALSE)}]

IdFrame ==
    UNCHANGED <<now, dbVars, backend, activeTransports, sessions, redis, sse, msgs,
                sweep, evicted, storeCall, answered, histCall, authDisabled, conn, bound>>

IdApply(d1, d2) ==
    /\ idCall.op = "none"
    /\ idCall' = [op |-> "ids", d1 |-> d1, d2 |-> d2,
                  id1 |-> getConnectionId(d1), id2 |-> getConnectionId(d2)]
    /\ IdFrame

IdInit == now = 0 /\ DbInit /\ backend = "memory" /\ SessIdle

IdNext == \E d1 \in Descriptors, d2 \in Descriptors : IdApply(d1, d2)

IdSpec == IdInit /\ [][IdNext]_vars

(***************************************************************************)
(* ParseSpec: getConnectionId followed by parseConnectionId                *)
(* (query-history.ts 201-203, part_006 362-382).  A string is the sequence *)
(* of its characters; DbConfigSchema (database.ts 6-13) takes any string   *)
(* for host, database and user.                                            *)
(***************************************************************************)
Alphabet == {"a", "@", ":", "/"}

Separators == {"@", ":", "/"}

\* the strings of one or two characters
TextsOver(alphabet) ==
    {<<x>> : x \in alphabet} \cup {<<x, y>> : x \in alphabet, y \in alphabet}

ParseDescriptors ==
    [host : TextsOver(Alphabet), port : {80, 5432}, database : TextsOver(Alphabet),
     user : TextsOver(Alphabet), password : {<<"p">>}]

PairDescriptors ==
    [host : TextsOver({"a", "@"}), port : {5432}, database : {<<"a">>},
     user : TextsOver({"a", "@"}), password : {<<"p">>}]

DigitChars == <<"0", "1", "2", "3", "4", "5", "6", "7", "8", "9">>

\* ${config.port} for a non-negative integer
RECURSIVE NumberText(_)
NumberText(n) ==
    IF n < 10 THEN <<DigitChars[n + 1]>>
              ELSE NumberText(n \div 10) \o <<DigitChars[(n % 10) + 1]>>

\* query-history.ts 201-203, on sequences of characters
connectionIdText(config) ==
    config.user \o <<"@">> \o config.host \o <<":">> \o NumberText(config.port)
        \o <<"/">> \o config.database

\* String.prototype.split with a one-character separator: all pieces
RECURSIVE Split(_, _, _)
Split(text, sep, piece) ==
    IF text = <<>> THEN <<piece>>
    ELSE IF Head(text) = sep THEN <<piece>> \o Split(Tail(text), sep, <<>>)
    ELSE Split(Tail(text), sep, Append(piece, Head(text)))

\* const [first, second] = pieces: a missing element is undefined
Element(pieces, i) == IF i <= Len(pieces) THEN Some(pieces[i]) ELSE NoValue

NaN == [nan |-> TRUE]

DigitValue(ch) == CHOOSE v \in 0..9 : DigitChars[v + 1] = ch

IsDigit(ch) == \E v \in 0..9 : DigitChars[v + 1] = ch

RECURSIVE LeadingDigits(_, _)
LeadingDigits(text, value) ==
    IF text = <<>> \/ ~IsDigit(Head(text)) THEN value
    ELSE LeadingDigits(Tail(text), 10 * value + DigitValue(Head(text)))

\* parseInt(portStr, 10) of undefined or of a string that does not begin
\* with a digit is NaN (no sign or blank is in the alphabet)
parseInt(portStr) ==
    IF portStr = NoValue THEN NaN
    ELSE IF portStr.value = <<>> \/ ~IsDigit(Head(portStr.value)) THEN NaN
    ELSE Some(LeadingDigits(portStr.value, 0))

\* part_006 362-382
parseConnectionId(connectionId) ==
    LET atPieces == Split(connectionId, "@", <<>>)
        user     == Element(atPieces, 1)
        dbPart   == Element(atPieces, 2)
    IN  IF dbPart = NoValue
        THEN [threw |-> TRUE, error |-> "Invalid connection ID format"]
        ELSE LET slashPieces == Split(dbPart.value, "/", <<>>)
                 hostPort    == Element(slashPieces, 1)
                 database    == Element(slashPieces, 2)
                 colonPieces == Split(hostPort.value, ":", <<>>)
                 host        == Element(colonPieces, 1)
                 portStr     == Element(colonPieces, 2)
             IN  [threw |-> FALSE, host |-> host, port |-> parseInt(portStr),
                  database |-> database, user |-> user, password |-> Some(<<>>)]

\* one evaluation per behaviour
ParseApply ==
    /\ idCall.op = "none"
    /\ \E d \in ParseDescriptors :
           idCall' = [op |-> "parse", d |-> d, id |-> connectionIdText(d),
                      parsed |-> parseConnectionId(connectionIdText(d))]
    /\ IdFrame

PairApply ==
    /\ idCall.op = "none"
    /\ \E d1 \in PairDescriptors, d2 \in PairDescriptors :
           idCall' = [op |-> "pair", d1 |-> d1, d2 |-> d2,
                      id1 |-> connectionIdText(d1), id2 |-> connectionIdText(d2)]
    /\ IdFrame

ParseNext == ParseApply \/ PairApply

ParseSpec == IdInit /\ [][ParseNext]_vars

(***************************************************************************)
(* Pool manager: properties                                                *)
(***************************************************************************)
EntriesOf(h, key) == {i \in 1..Len(h) : h[i].dbConnectionId = key}

RECURSIVE SumOfTimes(_)
SumOfTimes(S) ==
    IF S = {} THEN 0
    ELSE LET c == CHOOSE x \in S : TRUE
         IN  calls[c].executionTimeMs + SumOfTimes(S \ {c})

SettledOn(key) == {c \in Calls : Begun(c) /\ Settled(c) /\ KeyOf(c) = key}
BegunOn(key) == {c \in Calls : Begun(c) /\ KeyOf(c) = key}

\* C1: a statement that raises a driver error appends exactly one history
\* entry for the fingerprint (error = the driver message, rowCount absent,
\* earlier entries untouched), raises totalQueries of the fingerprint by
\* exactly 1, and the caller then gets the driver error.
C1_FailureStep ==
    \A c \in Calls :
        (calls[c].pc = "running" /\ calls'[c].pc = "recording"
            /\ calls'[c].error # NoValue) =>
        LET key == KeyOf(c)
            last == history'[Len(history')]
        IN  /\ Len(history') = Len(history) + 1
            /\ \A i \in 1..Len(history) : history'[i] = history[i]
            /\ last.dbConnectionId = key
            /\ last.error = Some(calls'[c].error.message)
            /\ last.rowCount = NoValue
            /\ last.query = calls[c].query
            /\ Cardinality(EntriesOf(history', key))
                   = Cardinality(EntriesOf(history, key)) + 1
            /\ stats[key] # NoStats
            /\ stats'[key].totalQueries = stats[key].totalQueries + 1
            /\ \A k \in Keys \ {key} : stats'[k] = stats[k]

C1_Raised ==
    \A c \in Calls :
        (calls[c].pc = "done" /\ calls[c].error # NoValue) =>
            calls[c].outcome = [threw |-> TRUE, message |-> calls[c].error.message]

C2_StatsAreExact ==
    \A key \in Keys :
        LET S == SettledOn(key)
        IN  S # {} =>
              /\ stats[key] # NoStats
              /\ stats[key].totalQueries = Cardinality(S)
              /\ stats[key].avgExecutionTimeMs[1] * Cardinality(S)
                     = SumOfTimes(S) * stats[key].avgExecutionTimeMs[2]

C2_Witness ==
    /\ \A c \in Calls : calls[c].pc = "done" /\ Settled(c) /\ calls[c].created
    /\ \A c, d \in Calls : KeyOf(c) = KeyOf(d)
    /\ \E c, d \in Calls :
           /\ calls[c].error # NoValue
           /\ calls[d].result # NoValue
           /\ calls[c].executionTimeMs # calls[d].executionTimeMs

\* C3: a failed health check ends the call with the connection error and
\* leaves the pool map as it was, so the pool map only ever holds pools
\* whose health check succeeded; a call that finds no pool cached for its
\* fingerprint constructs a new pool and health-checks it.
C3_FailStep ==
    \A c \in Calls :
        (calls[c].pc = "connecting" /\ calls'[c].pc = "done") =>
            /\ clients' = clients
            /\ calls'[c].outcome =
                   [threw |-> TRUE,
                    message |-> "Failed to connect to database: ECONNREFUSED"]

C3_BeginStep ==
    \A c \in Calls :
        (calls[c].pc = "idle" /\ calls'[c].pc # "idle"
            /\ clients[getConnectionKey(calls'[c].config)] = NoPool) =>
            /\ calls'[c].pc = "connecting"
            /\ calls'[c].pool = nextPool'
            /\ nextPool' = nextPool + 1
            /\ \A b \in Calls \ {c} : calls[b].pool # calls'[c].pool

C3_OnlyCheckedPools ==
    \A key \in Keys :
        clients[key] # NoPool =>
            \E c \in Calls :
                /\ Begun(c) /\ KeyOf(c) = key /\ calls[c].created
                /\ calls[c].pool = clients[key]
                /\ calls[c].checked /\ ~ConnectFailed(c)

C3_FailedCheckIsNotCached ==
    [][C3_FailStep /\ C3_BeginStep]_vars /\ []C3_OnlyCheckedPools

C3_Witness ==
    \E b, c \in Calls :
        /\ ConnectFailed(b)
        /\ Begun(c) /\ b \in calls[c].after /\ KeyOf(c) = KeyOf(b)
        /\ calls[c].created /\ calls[c].checked
        /\ calls[c].pool # calls[b].pool

\* C4: a second execute with the same descriptor that starts after the
\* first one (which created and health-checked the pool) has returned gets
\* that same pool, constructs none and runs no health check; when both have
\* returned, one pool was created and checked and totalQueries is 2.
C4_SecondStep ==
    \A b, c \in Calls :
        (/\ calls[b].pc = "done" /\ Settled(b) /\ calls[b].created
         /\ calls[c].pc = "idle" /\ calls'[c].pc # "idle"
         /\ calls'[c].config = calls[b].config
         /\ BegunOn(KeyOf(b)) = {b}) =>
            /\ calls'[c].pc = "acquired"
            /\ calls'[c].pool = calls[b].pool
            /\ ~calls'[c].created
            /\ nextPool' = nextPool
            /\ stats' = stats

C4_BothReturned ==
    \A b, c \in Calls :
        (/\ calls[b].pc = "done" /\ Settled(b) /\ calls[b].created
         /\ calls[c].pc = "done" /\ Settled(c) /\ ~calls[c].created
         /\ calls[c].config = calls[b].config
         /\ BegunOn(KeyOf(b)) = {b, c}) =>
            /\ calls[c].pool = calls[b].pool
            /\ ~calls[c].checked
            /\ clients[KeyOf(b)] = calls[b].pool
            /\ stats[KeyOf(b)].totalQueries = 2

C4_SecondCallReusesPool == [][C4_SecondStep]_vars /\ []C4_BothReturned

C4_Witness ==
    \E b, c \in Calls :
        /\ b # c
        /\ calls[b].pc = "done" /\ Settled(b) /\ calls[b].created
        /\ calls[c].pc = "done" /\ Settled(c) /\ ~calls[c].created
        /\ calls[c].config = calls[b].config
        /\ b \in calls[c].after
        /\ stats[KeyOf(b)].totalQueries = 2
        /\ nextPool = 1

(***************************************************************************)
(* /sse, /messages and the cleanup timer: properties                       *)
(***************************************************************************)
\* ids no GET /sse ever hands out
NeverIssued == AllIds \ SessionIds

\* the session store holds nothing under this id
NotStored(id) == sessions[id] = NoValue /\ RedisGet(redis, id, now) = NoValue

\* C5: once a sweep has evicted a session from the session store, every
\* message posted afterwards with its id is answered 404 and is not handed
\* to the session's transport.
C5_EvictedIsClosed ==
    answered.afterEvict =>
        answered.status = NotFound /\ answered.handed = NoValue

\* the sweep has removed session 1 from the memory store, a message posted
\* afterwards is handed to its transport
C5_Witness ==
    /\ backend = "memory"
    /\ 1 \in evicted
    /\ sessions[1] = NoValue
    /\ answered.sessionId = 1
    /\ answered.afterEvict
    /\ answered.status = Handled
    /\ answered.handed = Transport(1)

\* C6: when the client of a channel has disconnected, at any point after
\* GET /sse registered the session, then once the /sse handler and its close
\* listener have run to their end the session is in neither activeTransports
\* nor the session store, and no message posted after the disconnect is
\* handed to its transport.
C6_DisconnectDeregisters ==
    /\ answered.afterClose => answered.handed = NoValue
    /\ \A id \in SessionIds :
           (sse[id].client = "gone"
               /\ sse[id].pc \in {"open", "closed", "failed", "rejected"}) =>
               activeTransports[id] = NoValue /\ NotStored(id)

\* the client left while mcpServer.connect or saveSession was awaited: the
\* handler has finished, the session is still registered and a later message
\* is handed to its transport
C6_Witness ==
    /\ sse[1] = [pc |-> "open", client |-> "gone"]
    /\ activeTransports[1] = Transport(1)
    /\ ~NotStored(1)
    /\ answered.sessionId = 1
    /\ answered.afterClose
    /\ answered.handed = Transport(1)

\* C7: a message whose session id was never issued is answered 404 (the
\* handler ends with that answer, it does not throw) and handed to no
\* transport; neither activeTransports nor the session store ever holds
\* anything under such an id, and no step of such a request changes them.
C7_Answer ==
    /\ answered.sessionId \in NeverIssued =>
           answered.status = NotFound /\ answered.handed = NoValue
    /\ \A id \in NeverIssued :
           /\ activeTransports[id] = NoValue
           /\ sessions[id] = NoValue
           /\ redis[id] = NoValue

C7_Step ==
    (<<activeTransports, sessions, redis>>' # <<activeTransports, sessions, redis>>) =>
        \/ sse' # sse
        \/ sweep' # sweep
        \/ now' # now
        \/ \E m \in Msgs : msgs[m].sessionId \in SessionIds /\ msgs'[m] # msgs[m]
        \/ msgs' = msgs /\ answered'.sessionId \in SessionIds

C8_Step ==
    \A id \in SessionIds :
        (id \notin evicted /\ id \in evicted') =>
            ~(/\ answered.sessionId = id
              /\ answered.status = Handled
              /\ now <= answered.at + CleanupMaxAgeMs)

C8_RoutedMessageCountsAsAccess == [][C8_Step]_vars

\* a sweep has removed session 1 although a message was handed to it less
\* than maxIdleAge before
C8_Witness ==
    /\ 1 \in evicted
    /\ sweep = "idle"
    /\ answered.sessionId = 1
    /\ answered.status = Handled
    /\ answered.at > 0
    /\ now < answered.at + CleanupMaxAgeMs

(***************************************************************************)
(* Session stores: properties                                              *)
(***************************************************************************)
StoreStep(op) == storeCall'.n = storeCall.n + 1 /\ storeCall'.op = op

\* the store holds a session under this id
RegisteredIn(ss, r, id) ==
    IF backend = "memory" THEN ss[id] # NoValue ELSE RedisGet(r, id, now) # NoValue

Registered(id) == RegisteredIn(sessions, redis, id)

SessionTimesIn(ss, r, id) ==
    IF backend = "memory"
    THEN [created |-> ss[id].created, lastAccessed |-> ss[id].lastAccessed]
    ELSE [created |-> RedisGet(r, id, now).created,
          lastAccessed |-> RedisGet(r, id, now).lastAccessed]

SessionTimes(id) == SessionTimesIn(sessions, redis, id)

\* C9: in the memory store cleanupSessions(maxAgeMs) run at time now keeps
\* exactly the sessions with now - lastAccessed <= maxAgeMs, unchanged (age
\* equal to maxAgeMs is kept), and removes every older one.
C9_CleanupStep ==
    (StoreStep("cleanup") /\ backend = "memory") =>
        \A id \in AllIds :
            sessions'[id] =
                IF sessions[id] # NoValue
                    /\ now - sessions[id].lastAccessed <= storeCall'.maxAgeMs
                THEN sessions[id] ELSE NoValue

C9_SweepKeepsBoundary == [][C9_CleanupStep]_vars

C9_Witness ==
    /\ backend = "memory"
    /\ storeCall.op = "cleanup"
    /\ storeCall.removed # {}
    /\ \E id \in AllIds :
           /\ sessions[id] # NoValue
           /\ now - sessions[id].lastAccessed = storeCall.maxAgeMs
           /\ sessions[id].lastAccessed > sessions[id].created

\* C10 as stated: getSession on a registered id returns the handle create
\* bound to it and sets last-access to now, creation time unchanged; on an
\* unregistered id it returns absent and creates nothing.
C10_GetStepAsStated ==
    StoreStep("get") =>
        LET id == storeCall'.id
        IN  IF Registered(id)
            THEN /\ storeCall'.ret = bound[id]
                 /\ storeCall'.ret # NoValue
                 /\ RegisteredIn(sessions', redis', id)
                 /\ SessionTimesIn(sessions', redis', id) =
                        [created |-> SessionTimes(id).created, lastAccessed |-> now]
            ELSE /\ storeCall'.ret = NoValue
                 /\ UNCHANGED <<sessions, redis, activeTransports>>

C10_GetStep ==
    StoreStep("get") =>
        LET id == storeCall'.id
            commandsOk == storeCall'.getOk /\ storeCall'.setOk
        IN  /\ UNCHANGED activeTransports
            /\ \A other \in AllIds \ {id} :
                   sessions'[other] = sessions[other] /\ redis'[other] = redis[other]
            /\ IF ~Registered(id) \/ ~commandsOk
               THEN /\ storeCall'.ret = NoValue
                    /\ UNCHANGED <<sessions, redis>>
               ELSE /\ RegisteredIn(sessions', redis', id)
                    /\ SessionTimesIn(sessions', redis', id) =
                           [created |-> SessionTimes(id).created, lastAccessed |-> now]
                    /\ IF backend = "memory"
                       THEN storeCall'.ret = bound[id] /\ storeCall'.ret # NoValue
                       ELSE IF activeTransports[id] # NoValue
                            THEN storeCall'.ret = bound[id] /\ storeCall'.ret # NoValue
                            ELSE storeCall'.ret = NoValue

C11_SaveStep ==
    (StoreStep("save") /\ Registered(storeCall'.id)) =>
        /\ storeCall'.threw
        /\ UNCHANGED <<sessions, redis, activeTransports>>

C11_DuplicateIsRejected == [][C11_SaveStep]_vars

\* a second saveSession of a registered id returned normally and the id is
\* now bound to the second handle
C11_Witness ==
    /\ storeCall.op = "save"
    /\ storeCall.existed
    /\ ~storeCall.threw
    /\ Registered(storeCall.id)
    /\ bound[storeCall.id] = storeCall.transport
    /\ storeCall.transport # Transport(storeCall.id)

\* C12: deleteSession never raises and leaves every other session as it
\* was; on an id the store does not hold it changes nothing; once it went
\* through the id is gone from the store and from activeTransports, so that
\* a second deleteSession of the id changes nothing. (A Redis DEL that fails
\* is swallowed and changes nothing.)
Gone(ss, r, at, id) == ss[id] = NoValue /\ r[id] = NoValue /\ at[id] = NoValue

C12_DeleteStep ==
    StoreStep("delete") =>
        LET id == storeCall'.id
        IN  /\ ~storeCall'.threw
            /\ \A other \in AllIds \ {id} :
                   /\ sessions'[other] = sessions[other]
                   /\ redis'[other] = redis[other]
                   /\ activeTransports'[other] = activeTransports[other]
            /\ Gone(sessions, redis, activeTransports, id) =>
                   UNCHANGED <<sessions, redis, activeTransports>>
            /\ storeCall'.redisOk => Gone(sessions', redis', activeTransports', id)
            /\ ~storeCall'.redisOk => UNCHANGED <<sessions, redis, activeTransports>>
            /\ (storeCall.op = "delete" /\ storeCall.id = id /\ storeCall.redisOk) =>
                   UNCHANGED <<sessions, redis, activeTransports>>

C12_DeleteIsIdempotent == [][C12_DeleteStep]_vars

C12_Witness ==
    /\ storeCall.op = "delete"
    /\ storeCall.again
    /\ ~storeCall.existed
    /\ storeCall.redisOk
    /\ storeCall.id \in StoreIds
    /\ bound[storeCall.id] # NoValue
    /\ \E other \in StoreIds \ {storeCall.id} : Registered(other)

\* C13: once a session has been closed (its close listener or the /sse
\* catch block has run deleteSession, or a sweep has evicted it) no message
\* posted afterwards is handed to its transport.
C13_ClosedIsTerminal ==
    (answered.afterEvict \/ answered.afterDelete) => answered.handed = NoValue

\* the /sse handler deleted the session after mcpServer.connect failed; a
\* message posted afterwards is handed to its transport
C13_Witness ==
    /\ sse[1].pc = "failed"
    /\ NotStored(1)
    /\ answered.sessionId = 1
    /\ answered.afterDelete
    /\ ~answered.afterEvict
    /\ answered.handed = Transport(1)

\* The fallback of POST /messages (143-156) adds nothing to activeTransports
\* that is not there: an entry appears only in GET /sse and in saveSession.
C13_FallbackInsertsNothing ==
    [][\A id \in AllIds :
          (activeTransports[id] = NoValue /\ activeTransports'[id] # NoValue) =>
              id \in SessionIds /\ sse'[id].pc \in {"saving", "connecting"}]_vars

\* C14: a message for a session whose key is in Redis but whose channel
\* was opened on the other process is not handed to a transport and gets an
\* answer other than the 404 given for an id without a key.
C14_Step ==
    \A m \in Msgs :
        (msgs[m].pc = "set" /\ msgs'[m].pc = "idle"
            /\ msgs[m].sessionId \in PeerIds) =>
            /\ answered'.sessionId = msgs[m].sessionId
            /\ answered'.handed = NoValue
            /\ answered'.status # NotFound

C14_NotLocalIsSignalled == [][C14_Step]_vars

\* the lookup found and refreshed the peer's key, the answer is 404
C14_Witness ==
    /\ answered.sessionId \in PeerIds
    /\ answered.status = NotFound
    /\ \A m \in Msgs : msgs[m].pc = "idle"
    /\ RedisGet(redis, answered.sessionId, now) # NoValue
    /\ RedisGet(redis, answered.sessionId, now).lastAccessed = now
    /\ RedisGet(redis, answered.sessionId, now).created < now

\* C15: whatever happens to the history write, the caller of query gets
\* the outcome of the statement: its result, or its own driver error.
C15_OutcomeIsTheStatements ==
    \A c \in Calls :
        (calls[c].pc = "done" /\ Settled(c)) =>
            calls[c].outcome = Outcome(calls[c].result, calls[c].error)

\* the statement succeeded, the history write failed, the caller got the
\* Redis error
C15_Witness ==
    \E c \in Calls :
        /\ calls[c].pc = "done"
        /\ calls[c].result # NoValue
        /\ calls[c].error = NoValue
        /\ calls[c].outcome.threw
        /\ calls[c].outcome.message \in HistoryErrors
        /\ stats[KeyOf(c)].totalQueries >= 1

\* C16: an invocation of GET /sse that ended because saveSession failed has
\* left no trace: no activeTransports entry, no stored session for its id.
C16_FailedOpenLeavesNoTrace ==
    \A id \in SessionIds :
        sse[id].pc = "rejected" => (activeTransports[id] = NoValue /\ NotStored(id))

\* saveSession failed, the transport is still in activeTransports and a
\* message posted for the id was handed to it
C16_Witness ==
    /\ backend = "redis"
    /\ sse[1].pc = "rejected"
    /\ activeTransports[1] = Transport(1)
    /\ answered.sessionId = 1
    /\ answered.handed = Transport(1)

\* C17: with the Redis session store, a call that finds Redis unavailable:
\* getSession returns null, deleteSession and cleanupSessions return without
\* throwing, and cleanupSessions leaves activeTransports as it was.
C17_Step ==
    (backend = "redis" /\ storeCall'.n # storeCall.n) =>
        /\ (storeCall'.op = "get" /\ ~storeCall'.getOk) => storeCall'.ret = NoValue
        /\ (storeCall'.op = "delete" /\ ~storeCall'.redisOk) => ~storeCall'.threw
        /\ (storeCall'.op = "cleanup" /\ ~storeCall'.redisOk) =>
               /\ ~storeCall'.threw
               /\ activeTransports' = activeTransports

C17_UnavailableStoreIsSwallowed == [][C17_Step]_vars

\* a sweep failed while activeTransports held an entry whose key had expired:
\* a sweep that had reached Redis would have removed it
C17_Witness ==
    /\ backend = "redis"
    /\ storeCall.op = "cleanup"
    /\ ~storeCall.redisOk
    /\ \E id \in StoreIds : activeTransports[id] # NoValue /\ ~Stored(id)

\* the entries the record calls for a fingerprint returned, in call order
RecordedFor(key) == SelectSeq(histCall.log, LAMBDA e : e.dbConnectionId = key)

Range(seq) == {seq[i] : i \in 1..Len(seq)}

NewestFirst(seq) ==
    \A i, j \in 1..Len(seq) : i < j => seq[i].timestamp >= seq[j].timestamp

\* the list holds exactly the N entries recorded for the fingerprint, each
\* once, newest first
ExactlyTheRecorded(ret, key) ==
    /\ Len(ret) = Len(RecordedFor(key))
    /\ Range(ret) = Range(RecordedFor(key))
    /\ NewestFirst(ret)
    /\ \A i \in 1..Len(ret) : ret[i].dbConnectionId = key

\* C18: after N record calls for a fingerprint that was never cleared,
\* getRecentQueries(fingerprint, N) returns exactly those N entries, each
\* once, newest first, and no entry of another fingerprint.
C18_RecentReturnsTheRecorded ==
    (/\ histCall.op = "recent"
     /\ histCall.key \notin histCall.cleared
     /\ histCall.limit = Len(RecordedFor(histCall.key)))
        => ExactlyTheRecorded(histCall.ret, histCall.key)

\* the same, for the calls whose Redis commands were answered
C18_AnsweredRecentReturnsTheRecorded ==
    (/\ histCall.op = "recent"
     /\ histCall.ok
     /\ histCall.key \notin histCall.cleared
     /\ histCall.limit = Len(RecordedFor(histCall.key)))
        => ExactlyTheRecorded(histCall.ret, histCall.key)

\* two entries were recorded for a fingerprint, Redis did not answer the
\* read, and getRecentQueries(fingerprint, 2) returned the empty list
C18_Witness ==
    /\ backend = "redis"
    /\ histCall.op = "recent"
    /\ ~histCall.ok
    /\ histCall.key \notin histCall.cleared
    /\ histCall.limit = 2
    /\ Len(RecordedFor(histCall.key)) = 2
    /\ histCall.ret = <<>>

\* what getRecentQueries and getQueryById return from a store that answers
RecentIn(h, q, key, limit) ==
    IF backend = "memory" THEN {getRecentQueries(h, key, limit)}
    ELSE RedisRecentQueries(q, key, limit)

ByIdIn(h, q, id) == IF backend = "memory" THEN getQueryById(h, id) ELSE RqGet(q, id)

\* clearHistory(key) took the store from (h, q) to (h2, q2): every recorded
\* entry of key is gone, and every other fingerprint reads as before
ClearedOnly(h, q, h2, q2, key) ==
    /\ \A limit \in Limits : RecentIn(h2, q2, key, limit) = {<<>>}
    /\ \A i \in 1..Len(RecordedFor(key)) : ByIdIn(h2, q2, RecordedFor(key)[i].id) = NoValue
    /\ \A g \in Keys \ {key}, limit \in Limits :
           RecentIn(h2, q2, g, limit) = RecentIn(h, q, g, limit)
    /\ \A id \in EntryIds :
           (ByIdIn(h, q, id) # NoValue /\ ByIdIn(h, q, id).dbConnectionId # key) =>
               ByIdIn(h2, q2, id) = ByIdIn(h, q, id)

C19_ClearStep ==
    (histCall'.n # histCall.n /\ histCall'.op = "clear") =>
        /\ ClearedOnly(history, rq, history', rq', histCall'.key)
        /\ (histCall.op = "clear" /\ histCall.key = histCall'.key) =>
               (history' = history /\ rq' = rq)

\* C19: clearHistory(fingerprint) removes every entry of the fingerprint and
\* nothing else: getRecentQueries(fingerprint) is empty afterwards, the other
\* fingerprints' getRecentQueries and getQueryById return what they returned
\* before, and a clearHistory that follows a clearHistory of the same
\* fingerprint changes nothing.
C19_ClearRemovesTheFingerprint == [][C19_ClearStep]_vars

\* the same, for the calls whose Redis commands were answered
C19_AnsweredClearStep ==
    (histCall'.n # histCall.n /\ histCall'.op = "clear" /\ histCall'.failed = "none") =>
        /\ ClearedOnly(history, rq, history', rq', histCall'.key)
        /\ (histCall.op = "clear" /\ histCall.key = histCall'.key
                /\ histCall.failed = "none") =>
               (history' = history /\ rq' = rq)

C19_AnsweredClearRemovesTheFingerprint == [][C19_AnsweredClearStep]_vars

\* clearHistory returned although Redis did not answer its ZRANGE, and the
\* fingerprint's recorded entry is still returned
C19_Witness ==
    /\ backend = "redis"
    /\ histCall.op = "clear"
    /\ histCall.failed = "range"
    /\ ~histCall.threw
    /\ Len(RecordedFor(histCall.key)) = 1
    /\ RedisRecentQueries(rq, histCall.key, 1) = {RecordedFor(histCall.key)}

\* a recordQuery step: the new entry is last; a store that was full lost its
\* first entry and nothing else, whatever its fingerprint; a store that was
\* not full lost nothing
C20_RecordStep ==
    nextEntryId' # nextEntryId =>
        /\ Len(history') = IF Len(history) < HistoryCap THEN Len(history) + 1
                           ELSE HistoryCap
        /\ history'[Len(history')].id = nextEntryId'
        /\ \A i \in 1..(Len(history') - 1) :
               history'[i] = history[IF Len(history) < HistoryCap THEN i ELSE i + 1]

\* C20: the memory store never holds more than 1000 entries over all
\* fingerprints, a record call on a full store drops exactly the entry
\* recorded first, and without a clear the store holds the last
\* min(n, 1000) of the n entries recorded.
C20_CapDropsTheOldest ==
    [][/\ Len(history') <= HistoryCap
       /\ C20_RecordStep
       /\ histCall'.cleared = {} =>
              \A i \in 1..Len(history') :
                  history'[i].id = nextEntryId' - Len(history') + i]_vars

\* 1001 entries were recorded: the store holds the last 1000, the one that
\* was dropped is the first, and both fingerprints are among the retained
C20_Witness ==
    /\ nextEntryId = HistoryCap + 1
    /\ histCall.cleared = {}
    /\ Len(history) = HistoryCap
    /\ history[1].id = 2
    /\ history[HistoryCap].id = HistoryCap + 1
    /\ \A key \in Keys : \E i \in 1..Len(history) : history[i].dbConnectionId = key

\* newest first, and entries of equal timestamp in the order of their
\* recordQuery calls (ids are drawn in call order)
NewestFirstThenRecorded(seq) ==
    \A i, j \in 1..Len(seq) :
        i < j => \/ seq[i].timestamp > seq[j].timestamp
                 \/ (seq[i].timestamp = seq[j].timestamp /\ seq[i].id < seq[j].id)

\* C21: in both stores getRecentQueries returns the entries by timestamp
\* descending, and entries of equal timestamp in the order in which they
\* were recorded.
C21_TiesInRecordingOrder ==
    histCall.op = "recent" => NewestFirstThenRecorded(histCall.ret)

\* the same, for the memory store only
C21_MemoryTiesInRecordingOrder ==
    (histCall.op = "recent" /\ backend = "memory") =>
        NewestFirstThenRecorded(histCall.ret)

\* the Redis store answered with two entries of one timestamp, the one
\* recorded later first
C21_Witness ==
    /\ backend = "redis"
    /\ histCall.op = "recent"
    /\ histCall.ok
    /\ Len(histCall.ret) = 2
    /\ histCall.ret[1].timestamp = histCall.ret[2].timestamp
    /\ histCall.ret[1].id > histCall.ret[2].id

\* the entries of a fingerprint the store in use retains
RetainedFor(key) ==
    IF backend = "memory" THEN {history[i] : i \in {j \in 1..Len(history) :
                                                     history[j].dbConnectionId = key}}
    ELSE {Parse(data) : data \in {d \in rq.entries : d.dbConnectionId = key}}

\* ret holds count entries of the set, each once, newest first, and no
\* entry left out is newer than one returned
NewestOf(ret, entries, count) ==
    /\ Len(ret) = count
    /\ Cardinality(Range(ret)) = count
    /\ Range(ret) \subseteq entries
    /\ NewestFirst(ret)
    /\ \A e \in entries \ Range(ret), i \in 1..Len(ret) : e.timestamp <= ret[i].timestamp

MinOf(a, b) == IF a < b THEN a ELSE b

\* C22: getRecentQueries(fingerprint) without a limit returns the
\* min(50, n) newest of the n entries retained for the fingerprint.
C22_DefaultLimitIsFifty ==
    (histCall.op = "recent" /\ histCall.limit = DefaultLimit) =>
        NewestOf(histCall.ret, RetainedFor(histCall.key),
                 MinOf(DefaultLimit, Cardinality(RetainedFor(histCall.key))))

\* the same, for the calls whose Redis commands were answered
C22_AnsweredDefaultLimitIsFifty ==
    (histCall.op = "recent" /\ histCall.limit = DefaultLimit /\ histCall.ok) =>
        NewestOf(histCall.ret, RetainedFor(histCall.key),
                 MinOf(DefaultLimit, Cardinality(RetainedFor(histCall.key))))

\* 51 entries are retained for the fingerprint, Redis did not answer, and
\* getRecentQueries(fingerprint) returned the empty list
C22_Witness ==
    /\ backend = "redis"
    /\ histCall.op = "recent"
    /\ ~histCall.ok
    /\ Cardinality(RetainedFor(histCall.key)) = DefaultLimit + 1
    /\ histCall.ret = <<>>

\* 51 entries are retained and an answered call returned the newest 50
C22_AnsweredWitness ==
    /\ histCall.op = "recent"
    /\ histCall.ok
    /\ Cardinality(RetainedFor(histCall.key)) = DefaultLimit + 1
    /\ Len(histCall.ret) = DefaultLimit

SameEndpoint(d1, d2) ==
    /\ d1.host = d2.host
    /\ d1.port = d2.port
    /\ d1.database = d2.database
    /\ d1.user = d2.user

\* C23: two descriptors that agree on host, port, database and user have
\* the same connection id, whatever their password and ssl.
C23_IdIgnoresPasswordAndSsl ==
    (idCall.op = "ids" /\ SameEndpoint(idCall.d1, idCall.d2)) => idCall.id1 = idCall.id2

\* two descriptors of one endpoint with different password and ssl, one id
C23_Witness ==
    /\ idCall.op = "ids"
    /\ SameEndpoint(idCall.d1, idCall.d2)
    /\ idCall.d1.password # idCall.d2.password
    /\ idCall.d1.ssl # idCall.d2.ssl
    /\ idCall.id1 = idCall.id2

\* C24: when close() completes, every pool that was in the map has been
\* ended, the pool map is empty and the stats map is empty, also when the
\* end() of one of the pools fails.
C24_CloseStep ==
    (shutdown.pc = "ending" /\ shutdown'.pc # "ending") =>
        /\ clients' = [key \in Keys |-> NoPool]
        /\ stats' = [key \in Keys |-> NoStats]
        /\ CachedPools(clients) \cup shutdown.pools \subseteq shutdown'.ended

C24_CloseReleasesAndClears == [][C24_CloseStep]_vars

\* the same, for a close() all of whose end() calls resolved and during
\* which the pool map did not change
C24_QuietCloseStep ==
    (shutdown.pc = "ending" /\ shutdown'.pc = "done"
         /\ CachedPools(clients) = shutdown.pools) =>
        /\ clients' = [key \in Keys |-> NoPool]
        /\ stats' = [key \in Keys |-> NoStats]
        /\ CachedPools(clients) \cup shutdown.pools \subseteq shutdown'.ended

C24_QuietCloseReleasesAndClears == [][C24_QuietCloseStep]_vars

\* close() threw: one pool was ended, the other was not, and both maps still
\* hold their entries
C24_Witness ==
    /\ shutdown.pc = "threw"
    /\ shutdown.ended # {}
    /\ shutdown.ended # shutdown.pools
    /\ CachedPools(clients) = shutdown.pools
    /\ \E key \in Keys : stats[key] # NoStats

\* the disconnect of the channel changes nothing of the pool manager, of
\* its statistics or of the history
C25_DisconnectStep ==
    (sse[Requester].client = "up" /\ sse'[Requester].client = "gone") =>
        UNCHANGED dbVars

\* statistics and history count every statement that settled, whether the
\* channel was open or not when it did
C25_AllSettledAreRecorded ==
    \A key \in Keys :
        /\ Cardinality(EntriesOf(history, key)) = Cardinality(SettledOn(key))
        /\ SettledOn(key) # {} => stats[key].totalQueries = Cardinality(SettledOn(key))

\* C25: a query in flight when the channel disconnects is not cancelled: the
\* disconnect leaves it as it is, it runs to completion, and its statistics
\* update and its history entry are made as for any other query.
C25_InFlightQueryCompletes ==
    /\ [][C25_DisconnectStep]_vars
    /\ []C25_AllSettledAreRecorded
    /\ \A c \in Calls :
           (InFlight(c) /\ sse[Requester].client = "gone") ~> (calls[c].pc = "done")

\* the channel is closed and deregistered while the statement of a query
\* that came over it is running
C25_Witness ==
    /\ sse[Requester].pc = "closed"
    /\ activeTransports[Requester] = NoValue
    /\ \E c \in Calls : calls[c].pc = "running"

\* C26: the query tool submits the caller's statement wrapped in a READ
\* ONLY transaction, and no statement passed to it changes the database.
C26_ToolIsReadOnly ==
    /\ \A c \in Calls : Begun(c) => calls[c].query \in {Wrap(sql) : sql \in ToolInputs}
    /\ db = InitialRows

\* the tool was given DELETE FROM t, submitted it as it stood, and the table
\* is empty
C26_Witness ==
    /\ db = {}
    /\ \E c \in Calls :
           /\ calls[c].pc = "done"
           /\ calls[c].query = Deleting
           /\ calls[c].result # NoValue

\* C27: with authentication enabled, a message request without a valid
\* bearer token is answered 401 and nothing else happens: no transport is
\* handed the request, no session is read or refreshed in the store, and
\* activeTransports and the pending invocations are as before.
ValidHeaders == {[scheme |-> "Bearer", token |-> "signed"]}

C27_RejectStep ==
    \A m \in Msgs, id \in AllIds \cup {NoId}, header \in Headers \ ValidHeaders :
        (~authDisabled /\ AuthMsgPost(m, id, header)) =>
            /\ answered'.status = Unauthorized
            /\ answered'.handed = NoValue
            /\ UNCHANGED <<activeTransports, sessions, redis, msgs, bound>>

C27_UnauthenticatedIsRejectedFirst ==
    /\ [][C27_RejectStep]_vars
    /\ [](answered.status = Unauthorized => ~authDisabled /\ answered.handed = NoValue)

\* a request for a session that is registered here (or, with Redis, stored
\* by another process) was answered 401
C27_Witness ==
    /\ answered.status = Unauthorized
    /\ answered.sessionId \in AllIds
    /\ \/ activeTransports[answered.sessionId] # NoValue
       \/ redis[answered.sessionId] # NoValue

\* C28: concurrent calls for a fingerprint without a cached pool create one
\* pool and run one health check between them, and every pool that was
\* created and passed its check is the cached one (nothing in Spec releases
\* a pool).
CreatedFor(key) == {c \in Calls : Begun(c) /\ KeyOf(c) = key /\ calls[c].created}

C28_OnePoolPerFingerprint ==
    \A key \in Keys :
        /\ Cardinality({c \in CreatedFor(key) : calls[c].pc = "connecting"}) <= 1
        /\ \A c \in CreatedFor(key) :
               (calls[c].checked /\ ~ConnectFailed(c)) => clients[key] = calls[c].pool

\* two overlapping calls for one fingerprint each created a pool and each
\* health check passed; the map holds the second pool, the first is neither
\* cached nor ended
C28_Witness ==
    \E key \in Keys : \E c1, c2 \in CreatedFor(key) :
        /\ c1 # c2
        /\ calls[c1].checked /\ ~ConnectFailed(c1)
        /\ calls[c2].checked /\ ~ConnectFailed(c2)
        /\ calls[c1].pool # calls[c2].pool
        /\ clients[key] = calls[c2].pool
        /\ nextPool = 2

\* the entries of the fingerprint the history store holds (memory: the
\* array; Redis: the entry keys written, listed or not yet)
HistoryCount(key) ==
    IF backend = "memory" THEN Cardinality(EntriesOf(history, key))
    ELSE Cardinality({data \in rq.entries : data.dbConnectionId = key})

TotalOf(key) == IF stats[key] = NoStats THEN 0 ELSE stats[key].totalQueries

\* the calls whose caller has the result or the driver error of its statement
ObservedOn(key) ==
    {c \in SettledOn(key) :
        /\ calls[c].pc = "done"
        /\ calls[c].outcome = Outcome(calls[c].result, calls[c].error)}

\* C29: the statistics are updated before the history entry is appended and
\* both before the caller has the result or the error: per fingerprint, the
\* callers served are at most the entries recorded, and the entries recorded
\* are at most totalQueries, which counts the statements that settled.
C29_StatsThenHistoryThenCaller ==
    \A key \in Keys :
        /\ Cardinality(ObservedOn(key)) <= HistoryCount(key)
        /\ HistoryCount(key) <= TotalOf(key)
        /\ SettledOn(key) # {} => TotalOf(key) = Cardinality(SettledOn(key))

\* two statements of one fingerprint settled; the first caller has its
\* result, the second entry is still on its way to the store
C29_Witness ==
    \E key \in Keys :
        /\ TotalOf(key) = 2
        /\ HistoryCount(key) = 1
        /\ Cardinality(ObservedOn(key)) = 1
        /\ \E c \in SettledOn(key) : calls[c].pc = "recording"

\* the statements of the fingerprint in the order in which they completed
\* (the memory store appends in the step that updates the statistics)
CompletedOn(key) == SelectSeq(history, LAMBDA e : e.dbConnectionId = key)

MaxDuration(seq) ==
    CHOOSE d \in {seq[i].executionTimeMs : i \in 1..Len(seq)} :
        \A i \in 1..Len(seq) : seq[i].executionTimeMs <= d

FirstAtMax(seq) ==
    seq[CHOOSE i \in 1..Len(seq) :
            /\ seq[i].executionTimeMs = MaxDuration(seq)
            /\ \A j \in 1..(i - 1) : seq[j].executionTimeMs < MaxDuration(seq)]

\* C30: slowestQuery holds the maximum duration among the completed queries
\* of the fingerprint and the text of the one that completed first among
\* those of that duration.
C30_SlowestIsFirstMaximum ==
    \A key \in Keys :
        LET done == CompletedOn(key)
        IN  IF done = <<>>
            THEN stats[key] = NoStats \/ stats[key].slowestQuery = NoSlowest
            ELSE /\ stats[key].slowestQuery.executionTimeMs = MaxDuration(done)
                 /\ stats[key].slowestQuery.query = FirstAtMax(done).query

\* two statements of one fingerprint with different texts took equally long;
\* the one submitted second completed first and is the one on record
C30_Witness ==
    \E key \in Keys :
        /\ Len(CompletedOn(key)) = 2
        /\ CompletedOn(key)[1].executionTimeMs = CompletedOn(key)[2].executionTimeMs
        /\ CompletedOn(key)[1].executionTimeMs > 0
        /\ CompletedOn(key)[1].query = calls[2].query
        /\ CompletedOn(key)[2].query = calls[1].query
        /\ calls[1].query # calls[2].query
        /\ stats[key].slowestQuery.query = calls[2].query

\* the step in which close() returns or throws
ClosingStep == shutdown.pc = "ending" /\ shutdown'.pc # "ending"

StatsKept(key) ==
    stats[key] # NoStats =>
        /\ stats'[key] # NoStats
        /\ stats'[key].totalQueries >= stats[key].totalQueries

\* C31: a fingerprint's statistics record never disappears and its
\* totalQueries never decreases, except in the step in which close()
\* completes; the initialisation in getConnection never lowers a count.
C31_CountStep == \A key \in Keys : ClosingStep \/ StatsKept(key)

C31_QuietCountStep ==
    (shutdown.pc = "idle" /\ shutdown'.pc = "idle") => \A key \in Keys : StatsKept(key)

C31_QuietOnlyCloseLowersTheCount == [][C31_QuietCountStep]_vars

OtherSecrets(d1, d2) ==
    SameEndpoint(d1, d2) /\ d1.password # d2.password /\ d1.ssl # d2.ssl

\* call b constructed the pool that is cached for its fingerprint
Owner(b) ==
    /\ calls[b].created /\ calls[b].checked /\ ~ConnectFailed(b)
    /\ clients[KeyOf(b)] = calls[b].pool

\* C32: with a pool cached, a call for the same host, port, database and
\* user with another password and ssl flag gets that pool, constructs none
\* and runs no health check; its statement counts in the same statistics
\* record and its history entry carries the same fingerprint.
C32_BeginStep ==
    \A b, c \in Calls :
        (/\ Owner(b)
         /\ calls[c].pc = "idle" /\ calls'[c].pc # "idle"
         /\ OtherSecrets(calls'[c].config, calls[b].config)) =>
            /\ calls'[c].pc = "acquired"
            /\ calls'[c].pool = calls[b].pool
            /\ ~calls'[c].created
            /\ UNCHANGED <<nextPool, clients, stats>>

C32_SharedRecords ==
    \A b, c \in Calls :
        (/\ Owner(b) /\ Settled(b) /\ Begun(c) /\ Settled(c)
         /\ OtherSecrets(calls[c].config, calls[b].config)) =>
            /\ {b, c} \subseteq SettledOn(KeyOf(b))
            /\ stats[KeyOf(b)].totalQueries = Cardinality(SettledOn(KeyOf(b)))
            /\ Cardinality(EntriesOf(history, getConnectionId(calls[b].config)))
                   = Cardinality(SettledOn(KeyOf(b)))

C32_SecretsDoNotSeparate == [][C32_BeginStep]_vars /\ []C32_SharedRecords

\* alice's pool was created with pw1 and no ssl; a call with pw2 and ssl ran
\* its statement on it without a health check, and statistics and history
\* of the fingerprint hold both
C32_Witness ==
    \E b, c \in Calls :
        /\ Owner(b) /\ calls[b].pc = "done" /\ Settled(b)
        /\ calls[c].pc = "done" /\ Settled(c)
        /\ OtherSecrets(calls[c].config, calls[b].config)
        /\ ~calls[c].created /\ ~calls[c].checked
        /\ calls[c].pool = calls[b].pool
        /\ stats[KeyOf(b)].totalQueries = 2
        /\ Cardinality(EntriesOf(history, KeyOf(b))) = 2
        /\ nextPool = 1

\* C33: after the same records and clears, getRecentQueries(key, limit) for
\* every limit >= 0 and getQueryById(id) return the same entries in the same
\* order from the memory store and from the Redis store.
C33_StoresAgree ==
    /\ histCall.op = "recent" => histCall.shared = {histCall.local}
    /\ histCall.op = "byId" => histCall.shared = histCall.local

\* the same for every limit >= 1
C33_StoresAgreeOnPositiveLimits ==
    /\ (histCall.op = "recent" /\ histCall.limit >= 1) => histCall.shared = {histCall.local}
    /\ histCall.op = "byId" => histCall.shared = histCall.local

\* getRecentQueries(key, 0) with two entries recorded for the key: the
\* memory store returns none, the Redis store both
C33_Witness ==
    /\ histCall.op = "recent"
    /\ histCall.limit = 0
    /\ histCall.local = <<>>
    /\ \E ret \in histCall.shared : Len(ret) = 2

\* several entries on both sides, read back with a limit that cuts
C33_PositiveWitness ==
    /\ histCall.op = "recent"
    /\ histCall.limit = 2
    /\ Len(histCall.log) = 3
    /\ Len(histCall.local) = 2
    /\ histCall.shared = {histCall.local}

\* the latest lastAccessed whose removal the bounded clock still reaches
Horizon == MaxTicks * CleanupIntervalMs - CleanupMaxAgeMs - CleanupIntervalMs

\* C34: with the cleanup timer firing at every period, a session in the
\* memory store that is not accessed again is eventually removed from the
\* store, and a session a sweep removed is not in the store afterwards.
C34_IdleSessionIsSwept ==
    /\ \A id \in SessionIds :
           (sessions[id] # NoValue /\ sessions[id].lastAccessed <= Horizon)
               ~> (sessions[id] = NoValue \/ sessions[id].lastAccessed > Horizon)
    /\ [](\A id \in SessionIds : id \in evicted => sessions[id] = NoValue)

\* the channel is open, its session was swept from the store
C34_Witness ==
    \E id \in SessionIds :
        /\ id \in evicted
        /\ sessions[id] = NoValue
        /\ sse[id].pc = "open"
        /\ now > CleanupMaxAgeMs

\* every call made for the fingerprint ended in a failed health check
OnlyFailedAcquires(key) ==
    BegunOn(key) # {} /\ \A c \in BegunOn(key) : ConnectFailed(c)

\* C35: after a failed acquire the fingerprint has no pool and no statistics
\* record: getStats returns null for it and getAllStats lists nothing for it.
C35_FailedAcquireLeavesNoStats ==
    \A c \in Calls :
        (Begun(c) /\ OnlyFailedAcquires(KeyOf(c))) =>
            /\ clients[KeyOf(c)] = NoPool
            /\ getStats(calls[c].config) = NoStats
            /\ \A record \in getAllStats : record.connectionId # KeyOf(c)

\* the only call for alice's fingerprint failed its health check; getStats
\* returns a record with totalQueries 0
C35_Witness ==
    \E c \in Calls :
        /\ Begun(c) /\ OnlyFailedAcquires(KeyOf(c))
        /\ clients[KeyOf(c)] = NoPool
        /\ getStats(calls[c].config) = InitialStats(KeyOf(c))
        /\ getStats(calls[c].config) \in getAllStats

\* C36: an execute whose health check fails throws the connection error
\* after one health check on one new pool, sends no statement, records no
\* history entry and leaves totalQueries of the fingerprint as it was, in the
\* step that begins it as in the step that fails it.
C36_AcquireStep ==
    \A c \in Calls :
        (calls[c].pc = "idle" /\ calls'[c].pc = "connecting") =>
            /\ TotalOf(KeyOf(c))' = TotalOf(KeyOf(c)')
            /\ nextPool' = nextPool + 1
            /\ UNCHANGED <<history, clients, db>>

C36_FailStep ==
    \A c \in Calls :
        (calls[c].pc = "connecting" /\ calls'[c].pc = "done") =>
            /\ calls'[c].outcome =
                   [threw |-> TRUE,
                    message |-> "Failed to connect to database: ECONNREFUSED"]
            /\ calls'[c].checked /\ calls'[c].created
            /\ calls'[c].startTime = NoTime /\ ~Settled(c)'
            /\ UNCHANGED <<stats, history, nextPool, nextEntryId, db>>

C36_FailedAcquireCountsNothing == [][C36_AcquireStep /\ C36_FailStep]_vars

\* a call failed its health check while another one of the fingerprint had
\* completed its statement: one entry, totalQueries 1
C36_Witness ==
    \E b, c \in Calls :
        /\ Begun(b) /\ Begun(c) /\ b # c
        /\ ConnectFailed(c) /\ calls[c].checked
        /\ KeyOf(b) = KeyOf(c) /\ Settled(b)
        /\ TotalOf(KeyOf(c)) = 1
        /\ Cardinality(EntriesOf(history, KeyOf(c))) = 1

\* C37: when mcpServer.connect threw in the /sse handler, the session id is
\* in neither the session store nor activeTransports, and no message posted
\* afterwards is handed to its transport.
C37_FailedConnectDeregisters ==
    \A id \in SessionIds :
        sse[id].pc = "failed" =>
            /\ activeTransports[id] = NoValue
            /\ NotStored(id)
            /\ (answered.sessionId = id /\ answered.afterDelete) => answered.handed = NoValue

\* memory store: connect threw, the store no longer has the session, the
\* transport is still in activeTransports and got a message posted afterwards
C37_Witness ==
    /\ backend = "memory"
    /\ sse[1].pc = "failed"
    /\ sessions[1] = NoValue
    /\ activeTransports[1] = Transport(1)
    /\ answered.sessionId = 1
    /\ answered.afterDelete
    /\ answered.handed = Transport(1)

\* C38: client.connect() is invoked at most once on the client of a store,
\* and no call on the store fails or comes back empty because another call
\* was connecting.
C38_ConnectsOnce ==
    /\ \A st \in Stores : conn.connects[st] <= 1
    /\ \A o \in Ops : conn.ops[o].pc = "done" => conn.ops[o].ret = "answer"

\* two getSession calls entered before the session store was connected:
\* connect() was invoked twice, one call was answered, the other returned
\* null
C38_Witness ==
    /\ conn.connects["session"] = 2
    /\ conn.isConnected["session"]
    /\ \E a, b \in Ops :
           /\ conn.ops[a].pc = "done" /\ conn.ops[a].method = "getSession"
           /\ conn.ops[a].ret = "answer"
           /\ conn.ops[b].pc = "done" /\ conn.ops[b].method = "getSession"
           /\ conn.ops[b].late /\ conn.ops[b].ret = "nothing"

\* no recordQuery and no clearHistory is between two of its commands
Quiescent ==
    /\ \A c \in Calls : calls[c].pc \notin {"recording", "indexing"}
    /\ histCall.op = "clear" => histCall.pc = "done"

StoredIds(key) == {data.id : data \in {d \in rq.entries : d.dbConnectionId = key}}

\* C39: Redis history store, record and clear interleaved: whenever no call
\* is in progress, the entries of a fingerprint that getQueryById returns are
\* those whose id is in the fingerprint's list.
C39_ListMatchesEntries ==
    Quiescent => \A key \in Keys : StoredIds(key) = {x.value : x \in rq.lists[key]}

\* the same as long as clearHistory was not called
C39_ListMatchesEntriesWithoutClear ==
    (Quiescent /\ histCall.op = "none") =>
        \A key \in Keys : StoredIds(key) = {x.value : x \in rq.lists[key]}

\* the clear returned, every query returned, and an entry recorded while the
\* clear was running is answered by getQueryById but is in no list
C39_Witness ==
    /\ Quiescent
    /\ histCall.op = "clear"
    /\ \A c \in Calls : calls[c].pc = "done" /\ ~calls[c].outcome.threw
    /\ \E id \in StoredIds(histCall.key) :
           /\ RqGet(rq, id) # NoValue
           /\ id \notin {x.value : x \in rq.lists[histCall.key]}
           /\ RedisRecentQueries(rq, histCall.key, DefaultLimit) = {<<>>}

\* the parsed descriptor has the host, port, database and user of d
ParsesTo(parsed, d) ==
    /\ ~parsed.threw
    /\ parsed.host = Some(d.host)
    /\ parsed.port = Some(d.port)
    /\ parsed.database = Some(d.database)
    /\ parsed.user = Some(d.user)

SameFour(d1, d2) ==
    /\ d1.host = d2.host
    /\ d1.port = d2.port
    /\ d1.database = d2.database
    /\ d1.user = d2.user

HasSeparator(text) == \E i \in 1..Len(text) : text[i] \in Separators

Plain(d) == ~HasSeparator(d.user) /\ ~HasSeparator(d.host) /\ ~HasSeparator(d.database)

\* C40: parseConnectionId(getConnectionId(d)) has the host, port, database
\* and user of d, and two descriptors that differ in one of the four get
\* different connection ids.
C40_IdIsFaithful ==
    /\ idCall.op = "parse" => ParsesTo(idCall.parsed, idCall.d)
    /\ (idCall.op = "pair" /\ ~SameFour(idCall.d1, idCall.d2)) => idCall.id1 # idCall.id2

\* the same for descriptors whose user, host and database hold none of the
\* characters @ : /
C40_PlainIdIsFaithful ==
    /\ (idCall.op = "parse" /\ Plain(idCall.d)) => ParsesTo(idCall.parsed, idCall.d)
    /\ (idCall.op = "pair" /\ Plain(idCall.d1) /\ Plain(idCall.d2)
            /\ ~SameFour(idCall.d1, idCall.d2)) => idCall.id1 # idCall.id2

\* user a@ on host a and user a on host @a have one connection id
C40_Witness ==
    /\ idCall.op = "pair"
    /\ idCall.d1.user # idCall.d2.user
    /\ idCall.d1.host # idCall.d2.host
    /\ idCall.id1 = idCall.id2
    /\ ~ParsesTo(parseConnectionId(idCall.id1), idCall.d1)
    /\ ~ParsesTo(parseConnectionId(idCall.id2), idCall.d2)

\* a descriptor without separators comes back from its connection id
C40_PlainWitness ==
    /\ idCall.op = "parse"
    /\ Plain(idCall.d)
    /\ idCall.d.port = 5432
    /\ idCall.parsed.port = Some(5432)
    /\ idCall.parsed.user = Some(idCall.d.user)

====
